---- MODULE Spec2Model ----
(***************************************************************************)
(* A model of chr33s/shoputils:                                            *)
(*   - the fetcher of createFetcher (shared/fetch.ts): one request, the    *)
(*     429 sleep, the retry loop with jittered exponential backoff;        *)
(*   - verify(request).hmac and verify(request).token (server verifier);   *)
(*   - the file storages ShopifyFileStorage (server/shopify.ts) and        *)
(*     R2FileStorage (server/cloudflare.ts): put with its poll loop, get,  *)
(*     has, list and remove, against a platform that processes files.      *)
(* Strings are sequences of one-character strings.                         *)
(***************************************************************************)
EXTENDS Integers, Sequences, FiniteSets, TLC

VARIABLES
    \* ---- fetcher (shared/fetch.ts), one entry per fetcher call
    pc,        \* where each call stands
    script,    \* what the endpoint answers to the call's 1st, 2nd, ... request
    nreq,      \* requests the call has issued so far
    response,  \* fetcher's `response` variable
    attempt,   \* retry's `attempt` counter
    sleeps,    \* the arguments of the wait() calls, in order
    result,    \* how the call ended and what it gave its caller
    \* ---- verify(request).hmac (server verifier)
    hmacIn,    \* the request, the options {from, secret} and the clock
    hmacOut,   \* what hmac computed and returned for the request
    hmacOut2,  \* the same for the request with two query parameters swapped
    \* ---- verify(request).token (server verifier)
    tokenIn,   \* the request, the options {key, secret} and the clock
    tokenOut,  \* how token ended
    \* ---- the file storages (server/shopify.ts, server/cloudflare.ts)
    backend,   \* which storage is at work: "shopify" or "r2"
    env,       \* whether remote calls can fail, the calls of put left, and
               \* whether the turns of the poll loop are logged
    shop,      \* the files of the platform behind the admin client, by id
    staged,    \* what each put's staged upload target holds
    puts,      \* the calls of ShopifyFileStorage.put
    bucket,    \* the objects of the R2 bucket, by key
    expect,    \* per key, what the storage contract expects of it
    obs,       \* the last call of has, get, list, remove (or R2's put)
    pager,     \* a caller that lists with the cursors it is given
    \* ---- merge and the client of createClient (shared)
    client     \* the props of a client, the init of a call, the merged config

fetchVars == <<pc, script, nreq, response, attempt, sleeps, result>>

hmacVars == <<hmacIn, hmacOut, hmacOut2>>

tokenVars == <<tokenIn, tokenOut>>

storeVars == <<backend, env, shop, staged, puts, bucket, expect, obs, pager>>

clientVars == <<client>>

vars == <<fetchVars, hmacVars, tokenVars, storeVars, clientVars>>

----------------------------------------------------------------------------
(* Bounds of the model *)

\* number of endpoint answers that are drawn freely; the endpoint repeats the
\* last one for any later request
ScriptLen == 4

\* Math.random() is drawn from {0/RandSteps, ..., (RandSteps-1)/RandSteps}
RandSteps == 2

\* longest Retry-After header value
MaxHdrLen == 2

\* most query parameters of a request besides signature
MaxParams == 2

\* bytes of a digest of the model's keyed hash
DigestLen == 2

\* polls of one put that the model follows
MaxPolls == 3

\* calls of put that follow one another
MaxPuts == 2

\* list calls that a paging caller makes at most
MaxPages == 3

\* largest limit given to list
MaxLimit == 2

\* most elements of an array among the options
MaxItems == 2

----------------------------------------------------------------------------
(* Generic helpers *)

Min(a, b) == IF a <= b THEN a ELSE b

Digits == <<"0", "1", "2", "3", "4", "5", "6", "7", "8", "9">>

IsDigit(ch) == \E i \in 1..Len(Digits) : Digits[i] = ch

DigitVal(ch) == (CHOOSE i \in 1..Len(Digits) : Digits[i] = ch) - 1

\* the result of a numeric conversion that found no number
NaN == -1

\* every sequence over S of length at most n
SeqsUpTo(S, n) == UNION {[1..k -> S] : k \in 0..n}

----------------------------------------------------------------------------
(* shared/fetch.ts *)

\* the calls of fetcher: one of them is made, or the two race
Calls == {"c1", "c2"}

\* retry's default options { attempts: 3, delay: 100 }
Attempts == 3
Delay == 100

\* the default wait of rateLimit, and the factor seconds -> milliseconds
DefaultWait == 1000
MsPerSec == 1000

Statuses == {200, 404, 429, 500, 503}

HdrChars == {"0", "2", "x"}

NoHeader == [present |-> FALSE, value |-> <<>>]

Headers ==
    {NoHeader} \cup {[present |-> TRUE, value |-> v] : v \in SeqsUpTo(HdrChars, MaxHdrLen)}

NetFail == [kind |-> "netfail", status |-> 0, retryAfter |-> NoHeader]

Undefined == [kind |-> "undefined", status |-> 0, retryAfter |-> NoHeader]

Resp(s, h) == [kind |-> "response", status |-> s, retryAfter |-> h]

\* Retry-After is read from the initial response only (rateLimit is called on
\* line 8 and nowhere else), so its values vary on the first answer alone.
FirstOutcomes ==
    {Resp(s, NoHeader) : s \in Statuses} \cup {Resp(429, h) : h \in Headers} \cup {NetFail}

LaterOutcomes == {Resp(s, NoHeader) : s \in Statuses} \cup {NetFail}

Scripts ==
    {<<first>> \o later :
        first \in FirstOutcomes, later \in [1..(ScriptLen - 1) -> LaterOutcomes]}

\* the scripts of two calls that race: a first answer of 503 or 429, then
\* 503, 200 or a network failure, the third answer repeated
RaceScripts ==
    {sc \in Scripts :
        /\ sc[1] \in {Resp(503, NoHeader), Resp(429, NoHeader)}
        /\ \A i \in 2..Len(sc) :
              /\ sc[i] \in {Resp(503, NoHeader), Resp(200, NoHeader), NetFail}
              /\ i > 3 => sc[i] = sc[3]}

\* the endpoint's answer to the i-th request of a call
Outcome(sc, i) == sc[Min(i, Len(sc))]

\* Response.ok
Ok(r) == r.status >= 200 /\ r.status <= 299

\* parseInt(s, 10) of a string without sign or blanks: the value of the
\* longest prefix of digits, NaN when there is none
RECURSIVE DigitsValue(_)
DigitsValue(s) ==
    IF s = <<>> THEN 0
    ELSE DigitsValue(SubSeq(s, 1, Len(s) - 1)) * 10 + DigitVal(s[Len(s)])

RECURSIVE DigitPrefix(_)
DigitPrefix(s) ==
    IF s = <<>> \/ ~IsDigit(Head(s)) THEN <<>>
    ELSE <<Head(s)>> \o DigitPrefix(Tail(s))

ParseInt(s) == IF DigitPrefix(s) = <<>> THEN NaN ELSE DigitsValue(DigitPrefix(s))

\* line 18: retryAfter ? parseInt(retryAfter, 10) * 1000 : 1000
\* (headers.get gives null for an absent header; null and "" are falsy)
WaitTime(r) ==
    IF r.retryAfter.present /\ r.retryAfter.value # <<>>
    THEN IF ParseInt(r.retryAfter.value) = NaN THEN NaN
         ELSE ParseInt(r.retryAfter.value) * MsPerSec
    ELSE DefaultWait

\* line 9 with the threshold of a client error (a plausible slip)
NeedsRetryAnyError(r) == r.status >= 400

\* line 9: the initial response sends the call into retry
NeedsRetry(r) == r.status >= 500

\* line 30 with the comparison of line 9 (>= for >)
RetryThrowsFromThreshold(r) == r.status >= 500

\* line 30: a re-issued response makes the try block throw
RetryThrows(r) == r.status > 500

\* line 33 off by one: attempt++ >= attempts would be > here
ExhaustedLate(n) == n > Attempts

\* line 33: ++attempt >= attempts
Exhausted(n) == n >= Attempts

RECURSIVE Pow2(_)
Pow2(n) == IF n = 0 THEN 1 ELSE 2 * Pow2(n - 1)

\* lines 35-36: ms = delay * 2 ** attempt; ms = ms / 2 + (Math.random() * ms) / 2
\* with Math.random() = k / RandSteps
Backoff(n, k) ==
    LET ms == Delay * Pow2(n)
    IN  (ms \div 2) + ((k * ms) \div RandSteps) \div 2

Pending == [how |-> "pending", value |-> Undefined]

FetchInit ==
    /\ pc = [c \in Calls |-> IF c = "c1" THEN "idle" ELSE "off"]
    /\ script \in {[c \in Calls |-> IF c = "c1" THEN sc
                                     ELSE [i \in 1..ScriptLen |-> NetFail]] :
                      sc \in Scripts}
    /\ nreq = [c \in Calls |-> 0]
    /\ response = [c \in Calls |-> Undefined]
    /\ attempt = [c \in Calls |-> 0]
    /\ sleeps = [c \in Calls |-> <<>>]
    /\ result = [c \in Calls |-> Pending]

\* no fetcher call is made
FetchOff ==
    /\ pc = [c \in Calls |-> "off"]
    /\ script = [c \in Calls |-> [i \in 1..ScriptLen |-> NetFail]]
    /\ nreq = [c \in Calls |-> 0]
    /\ response = [c \in Calls |-> Undefined]
    /\ attempt = [c \in Calls |-> 0]
    /\ sleeps = [c \in Calls |-> <<>>]
    /\ result = [c \in Calls |-> Pending]

\* the caller invokes fetcher(input, init)
FetcherCall(c) ==
    /\ pc[c] = "idle"
    /\ pc' = [pc EXCEPT ![c] = "request"]
    /\ UNCHANGED <<script, nreq, response, attempt, sleeps, result, hmacVars, tokenVars, storeVars, clientVars>>

\* lines 6-13: the initial request and what fetcher does with its response
InitialRequest(c) ==
    /\ pc[c] = "request"
    /\ nreq' = [nreq EXCEPT ![c] = @ + 1]
    /\ LET o == Outcome(script[c], nreq[c] + 1)
       IN  IF o.kind = "netfail"
           THEN \* await request() rejects: fetcher rejects
                /\ pc' = [pc EXCEPT ![c] = "done"]
                /\ result' = [result EXCEPT ![c] = [how |-> "thrown", value |-> Undefined]]
                /\ UNCHANGED response
           ELSE /\ response' = [response EXCEPT ![c] = o]
                /\ IF ~Ok(o) /\ o.status = 429
                   THEN /\ pc' = [pc EXCEPT ![c] = "ratelimit"]
                        /\ UNCHANGED result
                   ELSE IF ~Ok(o) /\ NeedsRetry(o)
                   THEN /\ pc' = [pc EXCEPT ![c] = "retry"]
                        /\ UNCHANGED result
                   ELSE /\ pc' = [pc EXCEPT ![c] = "done"]
                        /\ result' = [result EXCEPT ![c] = [how |-> "returned", value |-> o]]
    /\ UNCHANGED <<script, attempt, sleeps, hmacVars, tokenVars, storeVars, clientVars>>

\* lines 16-20 and then line 9: the sleep of rateLimit ends
RateLimit(c) ==
    /\ pc[c] = "ratelimit"
    /\ sleeps' = [sleeps EXCEPT ![c] = Append(@, WaitTime(response[c]))]
    /\ IF NeedsRetry(response[c])
       THEN /\ pc' = [pc EXCEPT ![c] = "retry"]
            /\ UNCHANGED result
       ELSE /\ pc' = [pc EXCEPT ![c] = "done"]
            /\ result' = [result EXCEPT ![c] = [how |-> "returned", value |-> response[c]]]
    /\ UNCHANGED <<script, nreq, response, attempt, hmacVars, tokenVars, storeVars, clientVars>>

\* lines 26-34 with `attempt` of line 23 declared in createFetcher, one
\* counter for all the calls
RetryAttemptShared(c) ==
    /\ pc[c] = "retry"
    /\ nreq' = [nreq EXCEPT ![c] = @ + 1]
    /\ LET o == Outcome(script[c], nreq[c] + 1)
           local == IF o.kind = "netfail" THEN Undefined ELSE o
       IN  IF o.kind # "netfail" /\ ~RetryThrows(o)
           THEN /\ response' = [response EXCEPT ![c] = o]
                /\ pc' = [pc EXCEPT ![c] = "done"]
                /\ result' = [result EXCEPT ![c] = [how |-> "returned", value |-> o]]
                /\ UNCHANGED attempt
           ELSE /\ attempt' = [d \in Calls |-> attempt[d] + 1]
                /\ IF Exhausted(attempt[c] + 1)
                   THEN /\ response' = [response EXCEPT ![c] = local]
                        /\ pc' = [pc EXCEPT ![c] = "done"]
                        /\ result' = [result EXCEPT ![c] = [how |-> "returned", value |-> local]]
                   ELSE /\ pc' = [pc EXCEPT ![c] = "backoff"]
                        /\ UNCHANGED <<response, result>>
    /\ UNCHANGED <<script, sleeps, hmacVars, tokenVars, storeVars, clientVars>>

\* lines 26-34: one iteration of retry's loop up to its return or its wait.
\* `response` of line 27 is a fresh binding in every iteration: it is
\* undefined in the catch block when request() rejected.
RetryAttempt(c) ==
    /\ pc[c] = "retry"
    /\ nreq' = [nreq EXCEPT ![c] = @ + 1]
    /\ LET o == Outcome(script[c], nreq[c] + 1)
           local == IF o.kind = "netfail" THEN Undefined ELSE o
       IN  IF o.kind # "netfail" /\ ~RetryThrows(o)
           THEN /\ response' = [response EXCEPT ![c] = o]
                /\ pc' = [pc EXCEPT ![c] = "done"]
                /\ result' = [result EXCEPT ![c] = [how |-> "returned", value |-> o]]
                /\ UNCHANGED attempt
           ELSE /\ attempt' = [attempt EXCEPT ![c] = @ + 1]
                /\ IF Exhausted(attempt[c] + 1)
                   THEN /\ response' = [response EXCEPT ![c] = local]
                        /\ pc' = [pc EXCEPT ![c] = "done"]
                        /\ result' = [result EXCEPT ![c] = [how |-> "returned", value |-> local]]
                   ELSE /\ pc' = [pc EXCEPT ![c] = "backoff"]
                        /\ UNCHANGED <<response, result>>
    /\ UNCHANGED <<script, sleeps, hmacVars, tokenVars, storeVars, clientVars>>

\* lines 35-37: the jittered delay is computed and slept
RetryWait(c) ==
    /\ pc[c] = "backoff"
    /\ \E k \in 0..(RandSteps - 1) :
          sleeps' = [sleeps EXCEPT ![c] = Append(@, Backoff(attempt[c], k))]
    /\ pc' = [pc EXCEPT ![c] = "retry"]
    /\ UNCHANGED <<script, nreq, response, attempt, result, hmacVars, tokenVars, storeVars, clientVars>>

FetchNext ==
    \E c \in Calls :
        \/ FetcherCall(c)
        \/ InitialRequest(c)
        \/ RateLimit(c)
        \/ RetryAttempt(c)
        \/ RetryWait(c)


----------------------------------------------------------------------------
(* verify(request).hmac *)

\* the characters with code points 43 ('+') to 90 ('Z'), in code order
AsciiFromPlus ==
    <<
      "+", ",", "-", ".", "/", "0", "1", "2", "3", "4", "5", "6", "7", "8", "9", ":",
      ";", "<", "=", ">", "?", "@", "A", "B", "C", "D", "E", "F", "G", "H", "I", "J",
      "K", "L", "M", "N", "O", "P", "Q", "R", "S", "T", "U", "V", "W", "X", "Y", "Z"
    >>

\* the characters with code points 97 ('a') to 122 ('z'), in code order
AsciiFromA ==
    <<
      "a", "b", "c", "d", "e", "f", "g", "h", "i", "j", "k", "l", "m", "n", "o", "p",
      "q", "r", "s", "t", "u", "v", "w", "x", "y", "z"
    >>

IndexIn(seq, ch) == CHOOSE i \in 1..Len(seq) : seq[i] = ch

\* TextEncoder.encode of a string of these characters: one byte each
CodeOf(ch) ==
    IF \E i \in 1..Len(AsciiFromA) : AsciiFromA[i] = ch
    THEN 96 + IndexIn(AsciiFromA, ch)
    ELSE 42 + IndexIn(AsciiFromPlus, ch)

Utf8(s) == [i \in 1..Len(s) |-> CodeOf(s[i])]

\* the order localeCompare gives the characters that occur in key=value
\* strings here: punctuation, then symbols, then digits, then letters
Collation ==
    <<
      ",", "=", "0", "1", "2", "3", "4", "5", "6", "7", "8", "9", "a", "b", "c", "d",
      "e", "f", "g", "h", "i", "j", "k", "l", "m", "n", "o", "p", "q", "r", "s", "t",
      "u", "v", "w", "x", "y", "z"
    >>

Rank(ch) == IndexIn(Collation, ch)

\* a.localeCompare(b) < 0, on strings whose characters all differ at the
\* first collation level
RECURSIVE LocaleLess(_, _)
LocaleLess(a, b) ==
    IF b = <<>> THEN FALSE
    ELSE IF a = <<>> THEN TRUE
    ELSE IF Head(a) # Head(b) THEN Rank(Head(a)) < Rank(Head(b))
    ELSE LocaleLess(Tail(a), Tail(b))

\* Array.prototype.sort with that comparator (stable)
RECURSIVE InsertSorted(_, _)
InsertSorted(x, sorted) ==
    IF sorted = <<>> THEN <<x>>
    ELSE IF LocaleLess(x, Head(sorted)) THEN <<x>> \o sorted
    ELSE <<Head(sorted)>> \o InsertSorted(x, Tail(sorted))

RECURSIVE SortStrings(_)
SortStrings(ss) ==
    IF ss = <<>> THEN <<>>
    ELSE InsertSorted(ss[Len(ss)], SortStrings(SubSeq(ss, 1, Len(ss) - 1)))

\* Array.prototype.join("")
RECURSIVE Join(_)
Join(ss) == IF ss = <<>> THEN <<>> ELSE Head(ss) \o Join(Tail(ss))

SignatureKey == <<"s", "i", "g", "n", "a", "t", "u", "r", "e">>
TimestampKey == <<"t", "i", "m", "e", "s", "t", "a", "m", "p">>
NullString == <<"n", "u", "l", "l">>

Null == [present |-> FALSE, value |-> <<>>]
Some(v) == [present |-> TRUE, value |-> v]

\* URLSearchParams.get: the first value of the name, or null
RECURSIVE SearchGet(_, _)
SearchGet(q, name) ==
    IF q = <<>> THEN Null
    ELSE IF Head(q).key = name THEN Some(Head(q).value)
    ELSE SearchGet(Tail(q), name)

\* Object.fromEntries(url.searchParams): one property per key, in the order
\* the keys first occur (no key here is an array index), holding the value
\* of the key's LAST occurrence
RECURSIVE FromEntries(_)
FromEntries(q) ==
    IF q = <<>> THEN <<>>
    ELSE LET rest == FromEntries(SubSeq(q, 1, Len(q) - 1))
             last == q[Len(q)]
         IN  IF \E i \in 1..Len(rest) : rest[i].key = last.key
             THEN [i \in 1..Len(rest) |->
                      IF rest[i].key = last.key THEN last ELSE rest[i]]
             ELSE Append(rest, last)

RECURSIVE FilterNotSignature(_)
FilterNotSignature(es) ==
    IF es = <<>> THEN <<>>
    ELSE IF Head(es).key # SignatureKey
         THEN <<Head(es)>> \o FilterNotSignature(Tail(es))
         ELSE FilterNotSignature(Tail(es))

\* lines 26-27: `${key}=${Array.isArray(value) ? value.join(",") : value}`;
\* a property of Object.fromEntries(URLSearchParams) is always a string
KeyValue(e) == e.key \o <<"=">> \o e.value

\* lines 23-30 without the sort of line 29 (a plausible slip)
UrlDataUnsorted(q) ==
    LET es == FilterNotSignature(FromEntries(q))
    IN  Join([i \in 1..Len(es) |-> KeyValue(es[i])])

\* lines 23-30: the signed payload of the url variant
UrlData(q) ==
    LET es == FilterNotSignature(FromEntries(q))
    IN  Join(SortStrings([i \in 1..Len(es) |-> KeyValue(es[i])]))

\* the keyed hash of crypto.subtle.sign("HMAC", key, data) is the platform's:
\* the model has a deterministic function of the key bytes and the data
\* bytes with DigestLen bytes of 8 bits
RECURSIVE Mix(_, _, _)
Mix(h, m, bytes) ==
    IF bytes = <<>> THEN h
    ELSE Mix((h * m + Head(bytes)) % 256, m, Tail(bytes))

Sign(keyBytes, dataBytes) ==
    [i \in 1..DigestLen |->
        Mix(Mix(i, 29 + 2 * i, keyBytes), 29 + 2 * i, dataBytes)]

HexDigits ==
    <<
      "0", "1", "2", "3", "4", "5", "6", "7", "8", "9", "a", "b", "c", "d", "e", "f"
    >>

Base64Chars ==
    <<
      "A", "B", "C", "D", "E", "F", "G", "H", "I", "J", "K", "L", "M", "N", "O", "P",
      "Q", "R", "S", "T", "U", "V", "W", "X", "Y", "Z", "a", "b", "c", "d", "e", "f",
      "g", "h", "i", "j", "k", "l", "m", "n", "o", "p", "q", "r", "s", "t", "u", "v",
      "w", "x", "y", "z", "0", "1", "2", "3", "4", "5", "6", "7", "8", "9", "+", "/"
    >>

\* lines 101-104: two lowercase hexadecimal digits per byte
RECURSIVE EncodeHex(_)
EncodeHex(bytes) ==
    IF bytes = <<>> THEN <<>>
    ELSE <<HexDigits[(Head(bytes) \div 16) + 1], HexDigits[(Head(bytes) % 16) + 1]>>
         \o EncodeHex(Tail(bytes))

\* line 98: btoa of the bytes
RECURSIVE EncodeBase64(_)
EncodeBase64(bytes) ==
    IF bytes = <<>> THEN <<>>
    ELSE IF Len(bytes) = 1
    THEN <<Base64Chars[(bytes[1] \div 4) + 1],
           Base64Chars[((bytes[1] % 4) * 16) + 1], "=", "=">>
    ELSE IF Len(bytes) = 2
    THEN <<Base64Chars[(bytes[1] \div 4) + 1],
           Base64Chars[((bytes[1] % 4) * 16 + (bytes[2] \div 16)) + 1],
           Base64Chars[((bytes[2] % 16) * 4) + 1], "=">>
    ELSE <<Base64Chars[(bytes[1] \div 4) + 1],
           Base64Chars[((bytes[1] % 4) * 16 + (bytes[2] \div 16)) + 1],
           Base64Chars[((bytes[2] % 16) * 4 + (bytes[3] \div 64)) + 1],
           Base64Chars[(bytes[3] % 64) + 1]>>
         \o EncodeBase64(SubSeq(bytes, 4, Len(bytes)))

\* lines 95-106
Encode(value, encoding) ==
    IF encoding = "base64" THEN EncodeBase64(value) ELSE EncodeHex(value)

\* the variants with their encodings exchanged (a plausible slip)
EncodingOfSwapped(from) == IF from = "header" THEN "hex" ELSE "base64"

\* lines 18 and 31
EncodingOf(from) == IF from = "header" THEN "base64" ELSE "hex"

\* lines 13-39: get()
HmacGet(in) ==
    IF in.from = "header"
    THEN [data |-> in.body, encoding |-> EncodingOf(in.from), hmac |-> in.sigHeader]
    ELSE [data |-> UrlData(in.query), encoding |-> EncodingOf(in.from),
          hmac |-> SearchGet(in.query, SignatureKey)]

\* Number(url.searchParams.get("timestamp")): 0 for null and for "", the
\* value of a string of digits, NaN for the other strings of the model
NumberOf(p) ==
    IF ~p.present \/ p.value = <<>> THEN 0
    ELSE IF \A i \in 1..Len(p.value) : IsDigit(p.value[i]) THEN DigitsValue(p.value)
    ELSE NaN

Abs(x) == IF x < 0 THEN -x ELSE x

\* HMAC_TIMESTAMP_PERMITTED_CLOCK_TOLERANCE_SEC
Tolerance == 90

\* line 44: timestamp && Math.abs(Math.trunc(Date.now() / 1000) - timestamp) > 90
\* (0 and NaN are falsy)
Stale(ts, nowMs) ==
    /\ ts # 0
    /\ ts # NaN
    /\ Abs((nowMs \div 1000) - ts) > Tolerance

\* crypto.subtle.timingSafeEqual on buffers of equal length
TimingSafeEqual(a, b) == \A i \in 1..Len(a) : a[i] = b[i]

\* lines 40-69: what hmac returns, with the payload it built
Hmac(in) ==
    LET g == HmacGet(in)
        timestamp == NumberOf(SearchGet(in.query, TimestampKey))
        computed == Encode(Sign(Utf8(in.secret), Utf8(g.data)), g.encoding)
        bufA == Utf8(computed)
        \* TextEncoder.encode(null) encodes the string "null"
        bufB == Utf8(IF g.hmac.present THEN g.hmac.value ELSE NullString)
    IN  [state |-> "done",
         data |-> g.data,
         verdict |->
             IF Stale(timestamp, in.nowMs) THEN "null"
             ELSE IF Len(bufA) # Len(bufB) THEN "false"
             ELSE IF TimingSafeEqual(bufA, bufB) THEN "true"
             ELSE "false"]

\* ---- the requests hmac is applied to

ParamValues == {<<"1">>, <<"2">>}

\* timestamps around the clock values, and 0, "" and a non-number
TsValues ==
    {<<>>, <<"0">>, <<"x">>, <<"1", "0">>, <<"1", "1">>, <<"1", "9", "1">>}

Pairs ==
    {[key |-> <<"a">>, value |-> v] : v \in ParamValues}
    \cup {[key |-> <<"b">>, value |-> <<"1">>]}
    \cup {[key |-> TimestampKey, value |-> t] : t \in TsValues}

ParamSeqs == SeqsUpTo(Pairs, MaxParams)

Secrets == {<<"k">>, <<"j">>}

\* Date.now(), in milliseconds
Clock == {100999, 101000}

Bodies == {<<>>, <<"x">>}

\* the signatures a sender may attach to a payload: the keyed hash under
\* either secret in either encoding, one of them cut short, and ""
SigChoices(data) ==
    {Encode(Sign(Utf8(k), Utf8(data)), e) : k \in Secrets, e \in {"hex", "base64"}}
    \cup {SubSeq(EncodeHex(Sign(Utf8(k), Utf8(data))), 1, 2 * DigestLen - 1) : k \in Secrets}
    \cup {<<>>}

InsertAt(q, pos, x) == SubSeq(q, 1, pos) \o <<x>> \o SubSeq(q, pos + 1, Len(q))

SwapAt(q, i) ==
    [j \in 1..Len(q) |-> IF j = i THEN q[i + 1] ELSE IF j = i + 1 THEN q[i] ELSE q[j]]

NotRun == [state |-> "none", data |-> <<>>, verdict |-> "none"]

NotRun2 == [state |-> "none", data |-> <<>>, verdict |-> "none", at |-> 0]

HmacInit ==
    /\ \E from \in {"header", "url"}, secret \in Secrets, nowMs \in Clock, o \in ParamSeqs :
          IF from = "url"
          THEN \/ hmacIn = [from |-> from, secret |-> secret, nowMs |-> nowMs,
                            query |-> o, sigHeader |-> Null, body |-> <<>>]
               \/ \E sig \in SigChoices(UrlData(o)), pos \in 0..Len(o) :
                     hmacIn = [from |-> from, secret |-> secret, nowMs |-> nowMs,
                               query |-> InsertAt(o, pos, [key |-> SignatureKey, value |-> sig]),
                               sigHeader |-> Null, body |-> <<>>]
          ELSE \E body \in Bodies :
                  \E h \in {Null} \cup {Some(sig) : sig \in SigChoices(body)} :
                     hmacIn = [from |-> from, secret |-> secret, nowMs |-> nowMs,
                               query |-> o, sigHeader |-> h, body |-> body]
    /\ hmacOut = NotRun
    /\ hmacOut2 = NotRun2

\* hmac is not called
HmacOff ==
    /\ hmacIn = [from |-> "header", secret |-> <<>>, nowMs |-> 0,
                 query |-> <<>>, sigHeader |-> Null, body |-> <<>>]
    /\ hmacOut = [NotRun EXCEPT !.state = "off"]
    /\ hmacOut2 = [NotRun2 EXCEPT !.state = "off"]

\* verify(request).hmac({from, secret})
HmacCall ==
    /\ hmacOut.state = "none"
    /\ hmacOut' = Hmac(hmacIn)
    /\ UNCHANGED <<hmacIn, hmacOut2, fetchVars, tokenVars, storeVars, clientVars>>

\* hmac on the same url request with the query parameters i and i+1 in the
\* other order
HmacReordered ==
    /\ hmacOut.state = "done"
    /\ hmacOut2.state = "none"
    /\ hmacIn.from = "url"
    /\ \E i \in 1..(Len(hmacIn.query) - 1) :
          LET r == Hmac([hmacIn EXCEPT !.query = SwapAt(hmacIn.query, i)])
          IN  hmacOut2' = [state |-> r.state, data |-> r.data, verdict |-> r.verdict, at |-> i]
    /\ UNCHANGED <<hmacIn, hmacOut, fetchVars, tokenVars, storeVars, clientVars>>

HmacNext == HmacCall \/ HmacReordered

----------------------------------------------------------------------------
(* verify(request).token *)

\* A header or parameter value is a sequence of pieces: the literal
\* "Bearer " or a credential. A credential is a signed token, given by what
\* it holds, or a string that is no token.

NoClaim == [present |-> FALSE, value |-> 0]
Claim(n) == [present |-> TRUE, value |-> n]

ClientKeys == {<<"k", "1">>, <<"k", "2">>}

\* the aud claim: absent, a string, or an array of strings
Audiences ==
    {[kind |-> "absent", value |-> <<>>]}
    \cup {[kind |-> "string", value |-> k] : k \in ClientKeys}
    \cup {[kind |-> "array", value |-> <<k>>] : k \in ClientKeys}

\* the clock of the verification, in seconds
TokenClock == {100}

Jwts ==
    [kind : {"jwt"},
     signedWith : Secrets,
     exp : {NoClaim, Claim(90), Claim(91)},
     nbf : {NoClaim, Claim(110), Claim(111)},
     aud : Audiences]

Piece(kind) ==
    [kind |-> kind, signedWith |-> <<>>, exp |-> NoClaim, nbf |-> NoClaim,
     aud |-> [kind |-> "absent", value |-> <<>>]]

\* the literal "Bearer "
BearerPrefix == Piece("bearer")

\* a string that is no token
Junk == Piece("junk")

Credentials == Jwts \cup {Junk}

AuthorizationValues ==
    {Null, Some(<<>>), Some(<<BearerPrefix>>)}
    \cup {Some(<<BearerPrefix, t>>) : t \in Credentials}
    \cup {Some(<<t>>) : t \in Credentials}

IdTokenValues == {Null, Some(<<>>)} \cup {Some(<<t>>) : t \in Credentials}

\* line 83
ClockTolerance == 10

\* String.prototype.replace("Bearer ", ""): the first occurrence is removed
RECURSIVE ReplaceBearer(_)
ReplaceBearer(v) ==
    IF v = <<>> THEN <<>>
    ELSE IF Head(v) = BearerPrefix THEN Tail(v)
    ELSE <<Head(v)>> \o ReplaceBearer(Tail(v))

\* lines 73-75 with the operands of || exchanged: the parameter first
EncodedQueryFirst(in) ==
    IF in.idToken.present /\ in.idToken.value # <<>>
    THEN in.idToken
    ELSE IF in.authorization.present
    THEN Some(ReplaceBearer(in.authorization.value))
    ELSE Null

\* lines 73-75: header?.replace(...) || searchParams.get("id_token");
\* null, undefined and "" are falsy
Encoded(in) ==
    IF in.authorization.present /\ ReplaceBearer(in.authorization.value) # <<>>
    THEN Some(ReplaceBearer(in.authorization.value))
    ELSE in.idToken

\* jwtVerify(encoded, secret, {algorithms: ["HS256"], clockTolerance: 10})
\* of the jose library: it resolves to the payload when the string is a
\* token signed with the secret whose exp lies after now - tolerance and
\* whose nbf does not lie after now + tolerance, and rejects otherwise
JwtAccepts(encoded, secret, now) ==
    /\ Len(encoded) = 1
    /\ encoded[1].kind = "jwt"
    /\ LET t == encoded[1]
       IN  /\ t.signedWith = secret
           /\ t.exp.present => t.exp.value > now - ClockTolerance
           /\ t.nbf.present => t.nbf.value <= now + ClockTolerance

\* line 88 with an aud array that holds the key taken as a match (a
\* plausible slip: the claim may be a string or an array)
AudMatchesLoose(aud, key) ==
    \/ aud.kind = "string" /\ aud.value = key
    \/ aud.kind = "array" /\ \E i \in 1..Len(aud.value) : aud.value[i] = key

\* line 88 negated: decoded.aud !== key
AudMatches(aud, key) == aud.kind = "string" /\ aud.value = key

\* encoded is the string handed to jwtVerify, empty while it was not called
TokenIdle ==
    [state |-> "none", outcome |-> "none", verified |-> FALSE, claims |-> <<>>,
     encoded |-> <<>>]

\* lines 72-90
Token(in) ==
    LET encoded == Encoded(in)
        called == [TokenIdle EXCEPT !.state = "done", !.verified = TRUE,
                                    !.encoded = encoded.value]
    IN  IF ~encoded.present \/ encoded.value = <<>>
        THEN [TokenIdle EXCEPT !.state = "done", !.outcome = "null"]
        ELSE IF ~JwtAccepts(encoded.value, in.secret, in.now)
        THEN [called EXCEPT !.outcome = "raised"]
        ELSE IF ~AudMatches(encoded.value[1].aud, in.key)
        THEN [called EXCEPT !.outcome = "null"]
        ELSE [called EXCEPT !.outcome = "claims", !.claims = <<encoded.value[1]>>]

TokenInit ==
    /\ tokenIn \in [authorization : AuthorizationValues, idToken : IdTokenValues,
                    key : {<<"k", "1">>}, secret : {<<"k">>}, now : TokenClock]
    /\ tokenOut = TokenIdle

\* token is not called
TokenOff ==
    /\ tokenIn = [authorization |-> Null, idToken |-> Null,
                  key |-> <<>>, secret |-> <<>>, now |-> 0]
    /\ tokenOut = [TokenIdle EXCEPT !.state = "off"]

\* verify(request).token({key, secret})
TokenCall ==
    /\ tokenOut.state = "none"
    /\ tokenOut' = Token(tokenIn)
    /\ UNCHANGED <<tokenIn, fetchVars, hmacVars, storeVars, clientVars>>

TokenNext == TokenCall

----------------------------------------------------------------------------
(* server/shopify.ts and server/cloudflare.ts: the file storages *)

\* the put calls in flight: each is one call of put(key, file)
Puts == {"p1", "p2"}

\* keys are file names, the first a prefix of the second
Keys == {<<"a">>, <<"a", "b">>}

NoFile == [bytes |-> <<>>, type |-> "", name |-> <<>>]

\* File objects: their bytes, their declared type and their name
Files ==
    {[bytes |-> <<1>>, type |-> "image/png", name |-> <<"x.png">>],
     [bytes |-> <<2>>, type |-> "image/gif", name |-> <<"y.gif">>]}

\* setTimeout(resolve, 750), line 323
PollInterval == 750

\* the status of the exceptions of put, lines 167, 175, 240, 248, 256, 294,
\* 302, 311
BadRequest == 400

\* the status of remove when request(key) finds no file, line 335
NotFound == 404

\* the status of a refused upload (upload.status, line 195)
Forbidden == 403

\* ---- the platform behind the admin client

\* a file of the platform
NoUrl == <<>>

NoNode ==
    [exists |-> FALSE, filename |-> <<>>, fileStatus |-> "", url |-> NoUrl,
     fileErrors |-> <<>>, file |-> NoFile]

\* the ids the platform gives its files, in the order in which it lists
\* them
SlotOrder == <<"f1", "f2">>

FileIds == {SlotOrder[i] : i \in DOMAIN SlotOrder}

\* the id of a new file: the first one free (the last one when none is)
RECURSIVE FreshId(_, _)
FreshId(files, i) ==
    IF i = Len(SlotOrder) \/ ~files[SlotOrder[i]].exists THEN SlotOrder[i]
    ELSE FreshId(files, i + 1)

\* files(query: "filename:<key>"): the ids of the files of that name, in
\* the platform's order
RECURSIVE FilesNamed(_, _, _)
FilesNamed(files, key, i) ==
    IF i > Len(SlotOrder) THEN <<>>
    ELSE (IF files[SlotOrder[i]].exists /\ files[SlotOrder[i]].filename = key
          THEN <<SlotOrder[i]>> ELSE <<>>) \o FilesNamed(files, key, i + 1)

\* fileCreate(files: [{duplicateResolutionMode, filename, originalSource}]):
\* the id the platform gives the file. REPLACE puts it in the place of the
\* file of that name; otherwise, and when there is none, it is a new file
FileCreateId(files, mode, key, fresh) ==
    IF mode = "REPLACE" /\ FilesNamed(files, key, 1) # <<>>
    THEN Head(FilesNamed(files, key, 1))
    ELSE fresh

FileCreated(key, content) ==
    [exists |-> TRUE, filename |-> key, fileStatus |-> "PROCESSING",
     url |-> NoUrl, fileErrors |-> <<>>, file |-> content]

\* the locator the platform gives the file of an id
Locator(id) == <<"cdn", id>>

\* what processing can make of a file: PROCESSING, then READY, whose
\* locator may come later, or FAILED; errors may be attached at each step
Processed(node, id) ==
    LET step ==
            IF node.fileStatus = "PROCESSING"
            THEN {[node EXCEPT !.fileStatus = "READY"],
                  [node EXCEPT !.fileStatus = "READY", !.url = Locator(id)],
                  [node EXCEPT !.fileStatus = "FAILED"]}
            ELSE IF node.fileStatus = "READY" /\ node.url = NoUrl
            THEN {[node EXCEPT !.url = Locator(id)]}
            ELSE {}
    IN  (step \cup {[n EXCEPT !.fileErrors = <<"e">>] : n \in step \cup {node}})
            \ {node}

\* ---- ShopifyFileStorage.put

\* a poll response: data with the node, envelope errors, or none
NoPoll == [kind |-> "none", node |-> NoNode]

\* the entries of a call's log: a remote call, with the kind of its
\* response and, if it is a poll, the node, or a sleep of ms milliseconds
Called(name) == [call |-> name, ms |-> 0, saw |-> NoPoll]

Answered(name, reply) == [Called(name) EXCEPT !.saw.kind = reply]

\* line 323 with the delay taken for seconds
SleptSeconds(ms) == [call |-> "sleep", ms |-> ms * 1000, saw |-> NoPoll]

Slept(ms) == [call |-> "sleep", ms |-> ms, saw |-> NoPoll]

NoOut ==
    [kind |-> "none", message |-> "", status |-> 0, type |-> "",
     errors |-> <<>>, url |-> NoUrl]

\* put returned the locator
Returned(url) == [NoOut EXCEPT !.kind = "url", !.url = url]

\* new Exception(message, {errors, status, type})
Exception(message, errors, status, type) ==
    [kind |-> "exception", message |-> message, status |-> status,
     type |-> type, errors |-> errors, url |-> NoUrl]

\* an error that is no Exception: the rejection of a call, or a TypeError
Rejected(message) == [NoOut EXCEPT !.kind = "error", !.message = message]

PutIdle ==
    [pc |-> "idle", key |-> <<>>, file |-> NoFile, id |-> "none",
     log |-> <<>>, last |-> NoPoll, out |-> NoOut, sawReady |-> FALSE,
     alone |-> TRUE]

\* has, get and list change nothing: a behaviour is followed up to the
\* first of them
Looked == obs.op \in {"has", "get", "list"}

\* a call ends: it returns or raises
Ends(call, out) == [call EXCEPT !.pc = "done", !.out = out]

\* what the admin client can give a call: the platform's answer, an answer
\* with envelope errors, or a rejection (createClient awaits fetcher and
\* response.json() without a try block)
ClientReplies == IF env.faults THEN {"data", "errors", "reject"} ELSE {"data"}

\* a response with data that carries errors of the kind named
DataErrors(kind) == IF env.faults THEN {kind} ELSE {}

\* lines 131-185: stagedUploadsCreate and the checks of its response
Staged(call, reply) ==
    LET c == [call EXCEPT !.log = Append(@, Answered("stagedUploadsCreate", reply))]
    IN  CASE reply = "reject" -> Ends(c, Rejected("rejected"))
          [] reply = "errors" ->
                Ends(c, Exception("File upload server error", <<"graphql">>,
                                  BadRequest, "RESPONSE"))
          [] reply = "userErrors" ->
                Ends(c, Exception("File upload user error", <<"user">>,
                                  BadRequest, "RESPONSE"))
          [] reply = "noTarget" -> Ends(c, Rejected("TypeError"))
          [] reply = "data" -> [c EXCEPT !.pc = "transfer"]

\* lines 186-202 without the check of upload.ok
TransferredUnchecked(call, reply) ==
    LET c == [call EXCEPT !.log = Append(@, Answered("upload", reply))]
    IN  CASE reply = "reject" -> Ends(c, Rejected("rejected"))
          [] reply \in {"ok", "refused"} -> [c EXCEPT !.pc = "link"]

\* lines 186-202: the POST of the form to target.url with fetch
Transferred(call, reply) ==
    LET c == [call EXCEPT !.log = Append(@, Answered("upload", reply))]
    IN  CASE reply = "reject" -> Ends(c, Rejected("rejected"))
          [] reply = "refused" ->
                Ends(c, Exception("Forbidden", <<>>, Forbidden, "REQUEST"))
          [] reply = "ok" -> [c EXCEPT !.pc = "link"]

\* line 228 with the platform's other mode, which keeps both files
DuplicateResolutionModeAppend == "APPEND"

\* line 228
DuplicateResolutionMode == "REPLACE"

\* lines 204-259: fileCreate and the checks of its response
Linked(call, reply, id) ==
    LET c == [call EXCEPT !.log = Append(@, Answered("fileCreate", reply))]
    IN  CASE reply = "reject" -> Ends(c, Rejected("rejected"))
          [] reply = "errors" ->
                Ends(c, Exception("File linking server error", <<"graphql">>,
                                  BadRequest, "RESPONSE"))
          [] reply = "userErrors" ->
                Ends(c, Exception("File linking user error", <<"user">>,
                                  BadRequest, "RESPONSE"))
          [] reply = "fileErrors" ->
                Ends(c, Exception("File linking file error", <<"e">>,
                                  BadRequest, "RESPONSE"))
          [] reply = "data" -> [c EXCEPT !.pc = "poll", !.id = id]

\* lines 262-321 without the case "FAILED" of the switch
PolledNoFailedCase(call, reply, node) ==
    LET saw == [kind |-> reply, node |-> node]
        c == [call EXCEPT !.log = Append(@, [Called("node") EXCEPT !.saw = saw]),
                          !.last = saw]
    IN  CASE reply = "reject" -> Ends(c, Rejected("rejected"))
          [] reply = "errors" ->
                Ends(c, Exception("File processing server error", <<"graphql">>,
                                  BadRequest, "RESPONSE"))
          [] reply = "data" ->
                IF node.fileErrors # <<>>
                THEN Ends(c, Exception("File processing user error",
                                       node.fileErrors, BadRequest, "RESPONSE"))
                ELSE IF node.fileStatus = "READY" /\ node.url # NoUrl
                THEN Ends([c EXCEPT !.sawReady = TRUE], Returned(node.url))
                ELSE [c EXCEPT !.pc = "sleep",
                               !.sawReady = @ \/ node.fileStatus = "READY"]

\* lines 262-321 with the locator of a READY file returned unchecked
PolledReadyUnchecked(call, reply, node) ==
    LET saw == [kind |-> reply, node |-> node]
        c == [call EXCEPT !.log = Append(@, [Called("node") EXCEPT !.saw = saw]),
                          !.last = saw]
    IN  CASE reply = "reject" -> Ends(c, Rejected("rejected"))
          [] reply = "errors" ->
                Ends(c, Exception("File processing server error", <<"graphql">>,
                                  BadRequest, "RESPONSE"))
          [] reply = "data" ->
                IF node.fileErrors # <<>>
                THEN Ends(c, Exception("File processing user error",
                                       node.fileErrors, BadRequest, "RESPONSE"))
                ELSE IF node.fileStatus = "FAILED"
                THEN Ends(c, Exception("File upload failed", node.fileErrors,
                                       BadRequest, "RESPONSE"))
                ELSE IF node.fileStatus = "READY"
                THEN Ends([c EXCEPT !.sawReady = TRUE], Returned(node.url))
                ELSE [c EXCEPT !.pc = "sleep"]

\* lines 262-321 with one turn for a loop: a status that is not final
\* raises as well
PolledOnce(call, reply, node) ==
    LET saw == [kind |-> reply, node |-> node]
        c == [call EXCEPT !.log = Append(@, [Called("node") EXCEPT !.saw = saw]),
                          !.last = saw]
    IN  CASE reply = "reject" -> Ends(c, Rejected("rejected"))
          [] reply = "errors" ->
                Ends(c, Exception("File processing server error", <<"graphql">>,
                                  BadRequest, "RESPONSE"))
          [] reply = "data" ->
                IF node.fileErrors # <<>>
                THEN Ends(c, Exception("File processing user error",
                                       node.fileErrors, BadRequest, "RESPONSE"))
                ELSE IF node.fileStatus = "READY" /\ node.url # NoUrl
                THEN Ends([c EXCEPT !.sawReady = TRUE], Returned(node.url))
                ELSE Ends(c, Exception("File upload failed", node.fileErrors,
                                       BadRequest, "RESPONSE"))

\* lines 262-321: one poll of node(id) and what the loop makes of it
Polled(call, reply, node) ==
    LET saw == [kind |-> reply, node |-> node]
        c == [call EXCEPT !.log = Append(@, [Called("node") EXCEPT !.saw = saw]),
                          !.last = saw]
    IN  CASE reply = "reject" -> Ends(c, Rejected("rejected"))
          [] reply = "errors" ->
                Ends(c, Exception("File processing server error", <<"graphql">>,
                                  BadRequest, "RESPONSE"))
          [] reply = "data" ->
                IF node.fileErrors # <<>>
                THEN Ends(c, Exception("File processing user error",
                                       node.fileErrors, BadRequest, "RESPONSE"))
                ELSE IF node.fileStatus = "FAILED"
                THEN Ends(c, Exception("File upload failed", node.fileErrors,
                                       BadRequest, "RESPONSE"))
                ELSE IF node.fileStatus = "READY" /\ node.url # NoUrl
                THEN Ends([c EXCEPT !.sawReady = TRUE], Returned(node.url))
                ELSE [c EXCEPT !.pc = "sleep",
                               !.sawReady = @ \/ node.fileStatus = "READY"]

\* a call that has not ended
Active(call) == call.pc \notin {"idle", "done"}

\* the other calls at work on the key
Others(p, key) == {q \in Puts \ {p} : Active(puts[q]) /\ puts[q].key = key}

\* what the storage contract expects of a key: whether a put has stored it
\* since it was last removed, whether nothing has touched it since, the
\* file stored, whether that put found another file stored, and the file
\* of the put that was the last to link (or to write to the bucket)
Untouched ==
    [stored |-> FALSE, settled |-> TRUE, file |-> NoFile, over |-> FALSE,
     linked |-> NoFile]

\* the record of a call of has, get, list, remove (or R2's put)
NoObs ==
    [op |-> "none", key |-> <<>>, reply |-> "", present |-> FALSE,
     file |-> NoFile, out |-> NoOut, deletes |-> 0, was |-> Untouched,
     ready |-> FALSE, kept |-> TRUE, files |-> <<>>]

\* put(key, file) is called; a step of a put leaves the record of the call
\* before it behind
PutCall(p, key, file) ==
    /\ backend = "shopify"
    /\ ~Looked
    /\ ~Active(puts[p])
    /\ env.calls > 0
    /\ env' = [env EXCEPT !.calls = @ - 1]
    /\ staged' = [staged EXCEPT ![p] = NoFile]
    /\ puts' = [q \in Puts |->
                  IF q = p
                  THEN [PutIdle EXCEPT !.pc = "stage", !.key = key, !.file = file,
                                       !.alone = Others(p, key) = {}]
                  ELSE IF q \in Others(p, key)
                  THEN [puts[q] EXCEPT !.alone = FALSE]
                  ELSE puts[q]]
    /\ obs' = NoObs
    /\ UNCHANGED <<backend, shop, bucket, expect, pager,
                   fetchVars, hmacVars, tokenVars, clientVars>>

\* the calls of put follow one another: put is called, by the same caller,
\* while no call of put is at work
PutAlone(key, file) ==
    /\ \A q \in Puts : ~Active(puts[q])
    /\ PutCall("p1", key, file)

PutStage(p) ==
    /\ ~Looked
    /\ puts[p].pc = "stage"
    /\ \E reply \in ClientReplies \cup DataErrors("userErrors") \cup DataErrors("noTarget") :
          puts' = [puts EXCEPT ![p] = Staged(@, reply)]
    /\ obs' = NoObs
    /\ UNCHANGED <<backend, env, shop, staged, bucket, expect, pager,
                   fetchVars, hmacVars, tokenVars, clientVars>>

\* the upload gives the staged target the file's bytes under the declared
\* type
PutTransfer(p) ==
    /\ ~Looked
    /\ puts[p].pc = "transfer"
    /\ \E reply \in {"ok"} \cup DataErrors("refused") \cup DataErrors("reject") :
          /\ puts' = [puts EXCEPT ![p] = Transferred(@, reply)]
          /\ staged' = IF reply = "ok"
                       THEN [staged EXCEPT ![p] = [puts[p].file EXCEPT !.name = puts[p].key]]
                       ELSE staged
    /\ obs' = NoObs
    /\ UNCHANGED <<backend, env, shop, bucket, expect, pager,
                   fetchVars, hmacVars, tokenVars, clientVars>>

\* fileCreate makes the file of the staged resource, in the mode asked for
PutLink(p) ==
    /\ ~Looked
    /\ puts[p].pc = "link"
    /\ LET key == puts[p].key
           id == FileCreateId(shop, DuplicateResolutionMode, key, FreshId(shop, 1))
           made == FileCreated(key, staged[p])
       IN  \E reply \in ClientReplies \cup DataErrors("userErrors") \cup DataErrors("fileErrors") :
              /\ puts' = [puts EXCEPT ![p] = Linked(@, reply, id)]
              /\ shop' = CASE reply = "data" -> [shop EXCEPT ![id] = made]
                           [] reply = "fileErrors" ->
                                [shop EXCEPT ![id] = [made EXCEPT !.fileStatus = "FAILED",
                                                                  !.fileErrors = <<"e">>]]
                           [] OTHER -> shop
              /\ expect' = IF reply \in {"data", "fileErrors"}
                           THEN [expect EXCEPT ![key].settled = FALSE,
                                               ![key].linked = puts[p].file]
                           ELSE expect
    /\ obs' = NoObs
    /\ UNCHANGED <<backend, env, staged, bucket, pager,
                   fetchVars, hmacVars, tokenVars, clientVars>>

\* one turn of the loop up to its sleep. The loop has no limit: where its
\* turns are logged the model follows it for MaxPolls polls, and where they
\* are not it follows it for ever
PutPoll(p) ==
    /\ ~Looked
    /\ puts[p].pc = "poll"
    /\ env.logs => Len(SelectSeq(puts[p].log, LAMBDA e : e.call = "node")) < MaxPolls
    /\ \E reply \in ClientReplies :
          LET polled == Polled(puts[p], reply,
                               IF reply = "data" THEN shop[puts[p].id] ELSE NoNode)
              after == IF env.logs THEN polled
                       ELSE [polled EXCEPT !.log = puts[p].log]
          IN  /\ puts' = [puts EXCEPT ![p] = after]
              /\ expect' = IF after.out.kind = "url"
                           THEN [expect EXCEPT ![puts[p].key] =
                                   [stored |-> TRUE, settled |-> puts[p].alone,
                                    file |-> puts[p].file,
                                    over |-> /\ expect[puts[p].key].stored
                                             /\ expect[puts[p].key].file # puts[p].file,
                                    linked |-> expect[puts[p].key].linked]]
                           ELSE expect
    /\ obs' = NoObs
    /\ UNCHANGED <<backend, env, shop, staged, bucket, pager,
                   fetchVars, hmacVars, tokenVars, clientVars>>

\* line 323
PutSleep(p) ==
    /\ ~Looked
    /\ puts[p].pc = "sleep"
    /\ puts' = [puts EXCEPT ![p].pc = "poll",
                            ![p].log = IF env.logs THEN Append(@, Slept(PollInterval))
                                       ELSE @]
    /\ obs' = NoObs
    /\ UNCHANGED <<backend, env, shop, staged, bucket, expect, pager,
                   fetchVars, hmacVars, tokenVars, clientVars>>

\* the platform works on a file
PlatformProcess(id) ==
    /\ ~Looked
    /\ shop[id].exists
    /\ \E node \in Processed(shop[id], id) : shop' = [shop EXCEPT ![id] = node]
    /\ obs' = NoObs
    /\ UNCHANGED <<backend, env, staged, puts, bucket, expect, pager,
                   fetchVars, hmacVars, tokenVars, clientVars>>

\* ---- ShopifyFileStorage.request, has, get, remove, list

\* lines 374-407 with the query variable left out: the first file of all
RequestFirst(files, key, reply) ==
    LET held == SelectSeq(SlotOrder, LAMBDA id : files[id].exists)
    IN  IF reply = "data" /\ held # <<>>
        THEN [found |-> TRUE, id |-> Head(held),
              mimeType |-> files[Head(held)].file.type,
              url |-> files[Head(held)].url]
        ELSE [found |-> FALSE, id |-> "none", mimeType |-> "", url |-> NoUrl]

\* lines 374-407: files(first: 1, query: "filename:<key>"); a response
\* without data gives no node
Request(files, key, reply) ==
    LET named == FilesNamed(files, key, 1)
    IN  IF reply = "data" /\ named # <<>>
        THEN [found |-> TRUE, id |-> Head(named),
              mimeType |-> files[Head(named)].file.type,
              url |-> files[Head(named)].url]
        ELSE [found |-> FALSE, id |-> "none", mimeType |-> "", url |-> NoUrl]

\* lines 58-60: request(key).then(Boolean)
ShopifyHas(files, key, reply) == Request(files, key, reply).found

\* lines 43-56 without the {type} option of the File
ShopifyGetUntyped(files, key, reply) ==
    LET file == Request(files, key, reply)
    IN  IF file.url = NoUrl THEN NoFile
        ELSE [bytes |-> files[file.id].file.bytes, type |-> "", name |-> key]

\* lines 43-56: null without a locator, else the bytes fetched from the
\* locator under the type the platform reports
ShopifyGet(files, key, reply) ==
    LET file == Request(files, key, reply)
    IN  IF file.url = NoUrl THEN NoFile
        ELSE [bytes |-> files[file.id].file.bytes, type |-> file.mimeType,
              name |-> key]

\* ---- R2FileStorage

NoObject == [exists |-> FALSE, body |-> <<>>, contentType |-> "",
             name |-> <<>>, type |-> ""]

\* lines 71-85: the object bucket.put(key, body, {httpMetadata,
\* customMetadata}) stores
R2Put(file) ==
    [exists |-> TRUE, body |-> file.bytes, contentType |-> file.type,
     name |-> file.name, type |-> file.type]

\* lines 39-41
R2Has(objects, key) == objects[key].exists

\* lines 24-36
R2Get(objects, key) ==
    IF ~objects[key].exists THEN NoFile
    ELSE [bytes |-> objects[key].body, type |-> objects[key].contentType,
          name |-> objects[key].name]

\* ---- the calls of has, get and remove, on either storage

\* the replies the storage's remote calls can get
Replies == IF backend = "shopify" THEN ClientReplies ELSE {"data"}

\* a put of the key has seen READY in its loop
SawReady(key) == \E p \in Puts : puts[p].key = key /\ puts[p].sawReady

\* what every call notes of the key when it is made
Noted(op, key, reply) ==
    [NoObs EXCEPT !.op = op, !.key = key, !.reply = reply, !.was = expect[key],
                  !.ready = SawReady(key),
                  !.out = IF reply = "reject" THEN Rejected("rejected") ELSE NoOut]

Has(key) ==
    /\ ~Looked
    /\ backend # "off"
    /\ \E reply \in Replies :
          obs' = [Noted("has", key, reply) EXCEPT
                     !.present = /\ reply # "reject"
                                 /\ IF backend = "shopify"
                                    THEN ShopifyHas(shop, key, reply)
                                    ELSE R2Has(bucket, key)]
    /\ UNCHANGED <<backend, env, shop, staged, puts, bucket, expect, pager,
                   fetchVars, hmacVars, tokenVars, clientVars>>

Get(key) ==
    /\ ~Looked
    /\ backend # "off"
    /\ \E reply \in Replies :
          LET file == IF reply = "reject" THEN NoFile
                      ELSE IF backend = "shopify" THEN ShopifyGet(shop, key, reply)
                      ELSE R2Get(bucket, key)
          IN  obs' = [Noted("get", key, reply) EXCEPT
                         !.present = file # NoFile, !.file = file]
    /\ UNCHANGED <<backend, env, shop, staged, puts, bucket, expect, pager,
                   fetchVars, hmacVars, tokenVars, clientVars>>

\* shopify.ts lines 331-372: request(key), then fileDelete of its id; a
\* removal that succeeded leaves the key without a file, and the puts at
\* work on the key are no longer alone
ShopifyRemove(key) ==
    /\ ~Looked
    /\ backend = "shopify"
    /\ \E reply \in ClientReplies :
          LET file == Request(shop, key, reply)
              noted == Noted("remove", key, reply)
          IN  IF reply = "reject"
              THEN obs' = noted /\ UNCHANGED <<shop, expect, puts>>
              ELSE IF ~file.found
              THEN /\ obs' = [noted EXCEPT !.out = Exception("File not found", <<>>,
                                                             NotFound, "REQUEST")]
                   /\ UNCHANGED <<shop, expect, puts>>
              ELSE \E deleted \in ClientReplies \cup DataErrors("userErrors") :
                      /\ obs' = [noted EXCEPT
                                   !.reply = deleted,
                                   !.present = TRUE,
                                   !.deletes = 1,
                                   !.out = CASE deleted = "reject" -> Rejected("rejected")
                                             [] deleted = "errors" ->
                                                  Exception("File delete server error",
                                                            <<"graphql">>, BadRequest, "RESPONSE")
                                             [] deleted = "userErrors" ->
                                                  Exception("File delete user error",
                                                            <<"user">>, BadRequest, "RESPONSE")
                                             [] deleted = "data" -> NoOut]
                      /\ IF deleted = "data"
                         THEN /\ shop' = [shop EXCEPT ![file.id] = NoNode]
                              /\ expect' = [expect EXCEPT ![key] =
                                     [Untouched EXCEPT !.settled = Others("none", key) = {}]]
                              /\ puts' = [q \in Puts |->
                                     IF q \in Others("none", key)
                                     THEN [puts[q] EXCEPT !.alone = FALSE]
                                     ELSE puts[q]]
                         ELSE UNCHANGED <<shop, expect, puts>>
    /\ UNCHANGED <<backend, env, staged, bucket, pager, fetchVars, hmacVars, tokenVars, clientVars>>

\* cloudflare.ts lines 87-89: bucket.delete(key)
R2Remove(key) ==
    /\ ~Looked
    /\ backend = "r2"
    /\ bucket' = [bucket EXCEPT ![key] = NoObject]
    /\ obs' = [Noted("remove", key, "data") EXCEPT
                 !.present = bucket[key].exists, !.deletes = 1,
                 !.kept = \A k \in Keys \ {key} : bucket'[k] = bucket[k]]
    /\ expect' = [expect EXCEPT ![key] = Untouched]
    /\ UNCHANGED <<backend, env, shop, staged, puts, pager, fetchVars, hmacVars, tokenVars, clientVars>>

\* cloudflare.ts lines 71-85: put(key, file)
R2PutCall(key, file) ==
    /\ ~Looked
    /\ backend = "r2"
    /\ bucket' = [bucket EXCEPT ![key] = R2Put(file)]
    /\ obs' = [Noted("put", key, "data") EXCEPT !.present = TRUE, !.file = file]
    /\ expect' = [expect EXCEPT ![key] =
                     [stored |-> TRUE, settled |-> TRUE, file |-> file,
                      over |-> expect[key].stored /\ expect[key].file # file,
                      linked |-> file]]
    /\ UNCHANGED <<backend, env, shop, staged, puts, pager, fetchVars, hmacVars, tokenVars, clientVars>>

\* ---- list

\* options?.cursor and options?.limit left out (a prefix left out is the
\* empty string)
NoCursor == 0
NoLimit == 0

\* first: options?.limit ?? 10, shopify.ts line 100
DefaultFirst == 10

\* the limit of bucket.list when none is given
BucketLimit == 1000

IsPrefix(prefix, key) ==
    Len(prefix) <= Len(key) /\ SubSeq(key, 1, Len(prefix)) = prefix

\* the platform's paging: of the positions that match, those after the
\* position `after`, at most `first` of them; the cursor of a page is the
\* position of its last entry
Page(matching, after, first) ==
    LET rest == SelectSeq(matching, LAMBDA i : i > after)
        n == Min(first, Len(rest))
    IN  [at |-> SubSeq(rest, 1, n),
         endCursor |-> IF n = 0 THEN NoCursor ELSE rest[n],
         hasNextPage |-> Len(rest) > n]

\* an operation's argument $name takes the value of the variable of that
\* name, and none when the request carries no such variable
Argument(variables, name) ==
    IF name \in DOMAIN variables THEN variables[name] ELSE NoCursor

\* lines 98-102: the variables of the list query
Variables(options) ==
    [cursor |-> options.cursor,
     first |-> IF options.limit = NoLimit THEN DefaultFirst ELSE options.limit,
     query |-> options.prefix]

NoList == [defined |-> FALSE, cursor |-> NoCursor, files |-> <<>>]

\* lines 62-128: files(after: $after, first: $first, query: $query) and
\* the result made of its nodes; a response without data gives undefined
ShopifyList(files, options, reply) ==
    LET variables == Variables(options)
        matching == SelectSeq([i \in 1..Len(SlotOrder) |-> i],
                              LAMBDA i : /\ files[SlotOrder[i]].exists
                                         /\ IsPrefix(variables.query,
                                                     files[SlotOrder[i]].filename))
        page == Page(matching, Argument(variables, "after"), variables.first)
    IN  IF reply # "data" THEN NoList
        ELSE [defined |-> TRUE,
              cursor |-> IF page.hasNextPage THEN page.endCursor ELSE NoCursor,
              files |-> [j \in 1..Len(page.at) |->
                           [key |-> files[SlotOrder[page.at[j]]].url,
                            of |-> files[SlotOrder[page.at[j]]].filename]]]

\* the order in which the bucket lists its keys
KeyOrder == << <<"a">>, <<"a", "b">> >>

\* cloudflare.ts lines 43-69 with the cursor of line 45 left out
R2ListFromStart(objects, options) ==
    LET matching == SelectSeq([i \in 1..Len(KeyOrder) |-> i],
                              LAMBDA i : /\ objects[KeyOrder[i]].exists
                                         /\ IsPrefix(options.prefix, KeyOrder[i]))
        page == Page(matching, NoCursor,
                     IF options.limit = NoLimit THEN BucketLimit ELSE options.limit)
    IN  [defined |-> TRUE,
         cursor |-> IF page.hasNextPage THEN page.endCursor ELSE NoCursor,
         files |-> [j \in 1..Len(page.at) |->
                      [key |-> KeyOrder[page.at[j]], of |-> KeyOrder[page.at[j]]]]]

\* cloudflare.ts lines 43-69
R2List(objects, options) ==
    LET matching == SelectSeq([i \in 1..Len(KeyOrder) |-> i],
                              LAMBDA i : /\ objects[KeyOrder[i]].exists
                                         /\ IsPrefix(options.prefix, KeyOrder[i]))
        page == Page(matching, options.cursor,
                     IF options.limit = NoLimit THEN BucketLimit ELSE options.limit)
    IN  [defined |-> TRUE,
         cursor |-> IF page.hasNextPage THEN page.endCursor ELSE NoCursor,
         files |-> [j \in 1..Len(page.at) |->
                      [key |-> KeyOrder[page.at[j]], of |-> KeyOrder[page.at[j]]]]]

List(options, reply) ==
    IF backend = "shopify" THEN ShopifyList(shop, options, reply)
    ELSE R2List(bucket, options)

\* list() is called without options
ListCall ==
    /\ ~Looked
    /\ backend # "off"
    /\ \E reply \in Replies :
          LET listed == IF reply = "reject" THEN NoList
                        ELSE List([cursor |-> NoCursor, limit |-> NoLimit,
                                   prefix |-> <<>>], reply)
          IN  obs' = [NoObs EXCEPT
                        !.op = "list", !.reply = reply,
                        !.present = listed.defined,
                        !.files = listed.files,
                        !.ready = \A j \in 1..Len(listed.files) :
                                     SawReady(listed.files[j].of),
                        !.out = IF reply = "reject" THEN Rejected("rejected") ELSE NoOut]
    /\ UNCHANGED <<backend, env, shop, staged, puts, bucket, expect, pager,
                   fetchVars, hmacVars, tokenVars, clientVars>>

\* a caller that follows the cursors: it calls list with the cursor the
\* call before returned, until a call returns none
NoPager ==
    [state |-> "off", prefix |-> <<>>, limit |-> NoLimit,
     cursor |-> NoCursor, visited |-> <<>>, pages |-> 0]

ListNext ==
    /\ pager.state = "paging"
    /\ pager.pages < MaxPages
    /\ LET listed == List([cursor |-> pager.cursor, limit |-> pager.limit,
                           prefix |-> pager.prefix], "data")
       IN  pager' = [pager EXCEPT
                       !.visited = @ \o [j \in 1..Len(listed.files) |-> listed.files[j].of],
                       !.cursor = listed.cursor,
                       !.pages = @ + 1,
                       !.state = IF listed.cursor = NoCursor THEN "done" ELSE "paging"]
    /\ UNCHANGED <<backend, env, shop, staged, puts, bucket, expect, obs,
                   fetchVars, hmacVars, tokenVars, clientVars>>

\* ---- the storages at work

StoreOff ==
    /\ backend = "off"
    /\ env = [faults |-> FALSE, calls |-> 0, logs |-> TRUE]
    /\ shop = [id \in FileIds |-> NoNode]
    /\ staged = [p \in Puts |-> NoFile]
    /\ puts = [p \in Puts |-> PutIdle]
    /\ bucket = [k \in Keys |-> NoObject]
    /\ expect = [k \in Keys |-> Untouched]
    /\ obs = NoObs
    /\ pager = NoPager

StoreNext ==
    \/ \E key \in Keys, file \in Files : PutAlone(key, file)
    \/ \E p \in Puts : PutStage(p)
    \/ \E p \in Puts : PutTransfer(p)
    \/ \E p \in Puts : PutLink(p)
    \/ \E p \in Puts : PutPoll(p)
    \/ \E p \in Puts : PutSleep(p)
    \/ \E id \in FileIds : PlatformProcess(id)
    \/ \E key \in Keys : Has(key)
    \/ \E key \in Keys : Get(key)
    \/ \E key \in Keys : ShopifyRemove(key)
    \/ \E key \in Keys : R2Remove(key)
    \/ \E key \in Keys, file \in Files : R2PutCall(key, file)
    \/ ListCall

----------------------------------------------------------------------------
(* shared/utils.ts and shared/shopify.ts: merge and the client *)

\* ---- the values of options: undefined, a primitive (a string, as a
\* sequence of pieces), an array or a plain object. The properties of an
\* object are entries in their order of insertion; those of an array are
\* its elements under the indices "0", "1", ...

NoValue == [kind |-> "undefined", prim |-> <<>>, entries |-> <<>>]

Primitive(s) == [kind |-> "primitive", prim |-> s, entries |-> <<>>]

Entry(k, v) == [key |-> k, val |-> v]

Object(es) == [kind |-> "object", prim |-> <<>>, entries |-> es]

Indices == <<"0", "1", "2">>

Array(items) ==
    [kind |-> "array", prim |-> <<>>,
     entries |-> [i \in 1..Len(items) |-> Entry(Indices[i], items[i])]]

\* object[key], undefined when the object has no such property
Property(es, k) ==
    LET own == SelectSeq(es, LAMBDA e : e.key = k)
    IN  IF own = <<>> THEN NoValue ELSE own[1].val

\* object[key] = value: a property keeps its place, a new one comes last
Assign(es, k, v) ==
    IF \E i \in 1..Len(es) : es[i].key = k
    THEN [i \in 1..Len(es) |-> IF es[i].key = k THEN Entry(k, v) ELSE es[i]]
    ELSE Append(es, Entry(k, v))

\* utils.ts lines 82-85: a plain object or an array
isObject(value) == value.kind \in {"object", "array"}

RECURSIVE merge(_, _)
RECURSIVE MergeOwn(_, _)

\* utils.ts lines 121-129: the loop over the own properties of source, on
\* the properties of the copy of target
MergeOwn(es, own) ==
    IF own = <<>> THEN es
    ELSE LET key == Head(own).key
             value == Head(own).val
         IN  MergeOwn(Assign(es, key,
                             IF isObject(value) /\ isObject(Property(es, key))
                             THEN merge(Property(es, key), value)
                             ELSE value),
                      Tail(own))

\* utils.ts lines 110-132
merge(target, source) ==
    IF source.kind = "undefined" THEN target
    ELSE IF target.kind = "undefined" THEN source
    ELSE IF ~isObject(target) \/ ~isObject(source) THEN source
    ELSE [target EXCEPT !.entries = MergeOwn(target.entries, source.entries)]

\* ---- createClient

Types == {"admin", "customer", "storefront"}

\* props.token
AccessToken == <<"shpat">>

\* shopify.ts lines 46-50
AuthHeader ==
    [admin |-> "X-Shopify-Access-Token",
     customer |-> "Authorization",
     storefront |-> "X-Shopify-Storefront-Access-Token"]

\* shopify.ts lines 43-60, the url left out: the header of the type, with
\* the value of the template of line 51
parse(props) ==
    LET type == Property(props.entries, "type").prim[1]
    IN  [auth |-> <<Entry(AuthHeader[type],
                          Primitive(IF type = "customer" THEN <<"Bearer ">> ELSE <<>>))>>]

\* shopify.ts lines 31-39: the options the client gives fetcher
ClientInit(props) ==
    Object(<<Entry("body", Primitive(<<"body">>)),
             Entry("headers",
                   Object(<<Entry("Accept", Primitive(<<"application/json">>)),
                            Entry("Content-Type", Primitive(<<"application/json">>))>>
                          \o parse(props).auth)),
             Entry("method", Primitive(<<"POST">>))>>)

\* the values of an option: strings, arrays of strings, and objects of
\* header names with such values
Strings == {Primitive(<<"json">>), Primitive(AccessToken)}

Arrays == {Array(items) : items \in SeqsUpTo(Strings, MaxItems) \ {<<>>}}

HeaderNames == <<"Accept", "X-Shopify-Access-Token">>

HeaderObjects ==
    {Object(SelectSeq([i \in 1..Len(HeaderNames) |-> Entry(HeaderNames[i], at[i])],
                      LAMBDA e : e.val # NoValue)) :
        at \in [1..Len(HeaderNames) -> {NoValue} \cup Strings \cup Arrays]}

\* RequestInit with or without headers
RequestInits ==
    {Object(<<>>)} \cup
    {Object(<<Entry("headers", h)>>) : h \in Strings \cup Arrays \cup HeaderObjects}

\* ClientProps: shop, token, type and the RequestInit they extend
ClientProps ==
    {Object(<<Entry("shop", Primitive(<<"shop">>)),
              Entry("token", Primitive(AccessToken)),
              Entry("type", Primitive(<<type>>))>> \o base.entries) :
        type \in Types, base \in RequestInits}

NoClient == [state |-> "off", props |-> NoValue, init |-> NoValue, config |-> NoValue]

ClientOff == client = NoClient

\* createClient(props), and createFetcher(props) within it
ClientSpecInit ==
    /\ FetchOff /\ HmacOff /\ TokenOff /\ StoreOff
    /\ \E props \in ClientProps :
          client = [NoClient EXCEPT !.state = "created", !.props = props]

\* fetch.ts line 5: fetcher(input, init) merges the props with the init of
\* the call
FetcherMerge ==
    /\ client.state = "created"
    /\ \E init \in RequestInits \cup {NoValue} :
          client' = [client EXCEPT !.state = "fetched", !.init = init,
                                   !.config = merge(client.props, init)]
    /\ UNCHANGED <<fetchVars, hmacVars, tokenVars, storeVars>>

\* shopify.ts lines 29-41: the client is called with a request
ClientRequest ==
    /\ client.state = "created"
    /\ client' = [client EXCEPT !.state = "requested",
                                !.init = ClientInit(client.props),
                                !.config = merge(client.props, ClientInit(client.props))]
    /\ UNCHANGED <<fetchVars, hmacVars, tokenVars, storeVars>>

ClientNext == FetcherMerge \/ ClientRequest

----------------------------------------------------------------------------
(* Specifications *)

\* one fetcher call against every endpoint script
Init == FetchInit /\ HmacOff /\ TokenOff /\ StoreOff /\ ClientOff

Next == FetchNext

Spec == Init /\ [][Next]_vars

\* every step of a call is taken by the event loop once it is possible: a
\* started request settles and a timer fires
SpecLive == Spec /\ WF_vars(Next)

\* hmac applied to every request of the bounded sets
HmacSpecInit == FetchOff /\ HmacInit /\ TokenOff /\ StoreOff /\ ClientOff

SpecHmac == HmacSpecInit /\ [][HmacNext]_vars

\* token applied to every request of the bounded sets
TokenSpecInit == FetchOff /\ HmacOff /\ TokenInit /\ StoreOff /\ ClientOff

SpecToken == TokenSpecInit /\ [][TokenNext]_vars

\* puts, removals and lookups on an empty storage of either kind, whose
\* remote calls are answered
StoreSpecInit ==
    /\ FetchOff /\ HmacOff /\ TokenOff /\ ClientOff
    /\ backend \in {"shopify", "r2"}
    /\ env = [faults |-> FALSE, calls |-> MaxPuts, logs |-> TRUE]
    /\ shop = [id \in FileIds |-> NoNode]
    /\ staged = [p \in Puts |-> NoFile]
    /\ puts = [p \in Puts |-> PutIdle]
    /\ bucket = [k \in Keys |-> NoObject]
    /\ expect = [k \in Keys |-> Untouched]
    /\ obs = NoObs
    /\ pager = NoPager

SpecStore == StoreSpecInit /\ [][StoreNext]_vars

\* one put on an empty storage whose remote calls can fail
PutSpecInit ==
    /\ FetchOff /\ HmacOff /\ TokenOff /\ ClientOff
    /\ backend = "shopify"
    /\ env = [faults |-> TRUE, calls |-> 1, logs |-> TRUE]
    /\ shop = [id \in FileIds |-> NoNode]
    /\ staged = [p \in Puts |-> NoFile]
    /\ puts = [p \in Puts |-> PutIdle]
    /\ bucket = [k \in Keys |-> NoObject]
    /\ expect = [k \in Keys |-> Untouched]
    /\ obs = NoObs
    /\ pager = NoPager

PutNext ==
    \/ \E key \in Keys, file \in Files : PutAlone(key, file)
    \/ \E p \in Puts : PutStage(p)
    \/ \E p \in Puts : PutTransfer(p)
    \/ \E p \in Puts : PutLink(p)
    \/ \E p \in Puts : PutPoll(p)
    \/ \E p \in Puts : PutSleep(p)
    \/ \E id \in FileIds : PlatformProcess(id)

SpecPut == PutSpecInit /\ [][PutNext]_vars

\* two calls that race: two puts on one storage, with get, or two calls of
\* one fetcher
RaceInit ==
    /\ HmacOff /\ TokenOff /\ ClientOff
    /\ \/ /\ FetchOff
          /\ backend \in {"shopify", "r2"}
          /\ env = [faults |-> FALSE, calls |-> Cardinality(Puts), logs |-> FALSE]
       \/ /\ pc = [c \in Calls |-> "idle"]
          /\ script \in [Calls -> RaceScripts]
          /\ nreq = [c \in Calls |-> 0]
          /\ response = [c \in Calls |-> Undefined]
          /\ attempt = [c \in Calls |-> 0]
          /\ sleeps = [c \in Calls |-> <<>>]
          /\ result = [c \in Calls |-> Pending]
          /\ backend = "off"
          /\ env = [faults |-> FALSE, calls |-> 0, logs |-> TRUE]
    /\ shop = [id \in FileIds |-> NoNode]
    /\ staged = [p \in Puts |-> NoFile]
    /\ puts = [p \in Puts |-> PutIdle]
    /\ bucket = [k \in Keys |-> NoObject]
    /\ expect = [k \in Keys |-> Untouched]
    /\ obs = NoObs
    /\ pager = NoPager

RaceNext ==
    \/ \E p \in Puts, key \in Keys, file \in Files : PutCall(p, key, file)
    \/ \E p \in Puts : PutStage(p)
    \/ \E p \in Puts : PutTransfer(p)
    \/ \E p \in Puts : PutLink(p)
    \/ \E p \in Puts : PutPoll(p)
    \/ \E p \in Puts : PutSleep(p)
    \/ \E id \in FileIds : PlatformProcess(id)
    \/ \E key \in Keys, file \in Files : R2PutCall(key, file)
    \/ \E key \in Keys : Get(key)
    \/ FetchNext

SpecRace == RaceInit /\ [][RaceNext]_vars

\* one put whose loop is followed without a limit; every remote call and
\* every sleep of the put ends, the platform works at its own pace or not
\* at all
PutLiveInit ==
    /\ FetchOff /\ HmacOff /\ TokenOff /\ ClientOff
    /\ backend = "shopify"
    /\ env = [faults |-> TRUE, calls |-> 1, logs |-> FALSE]
    /\ shop = [id \in FileIds |-> NoNode]
    /\ staged = [p \in Puts |-> NoFile]
    /\ puts = [p \in Puts |-> PutIdle]
    /\ bucket = [k \in Keys |-> NoObject]
    /\ expect = [k \in Keys |-> Untouched]
    /\ obs = NoObs
    /\ pager = NoPager

SpecPutLive ==
    /\ PutLiveInit
    /\ [][PutNext]_vars
    /\ \A p \in Puts :
          /\ WF_vars(PutStage(p))
          /\ WF_vars(PutTransfer(p))
          /\ WF_vars(PutLink(p))
          /\ WF_vars(PutPoll(p))
          /\ WF_vars(PutSleep(p))

\* a caller that pages through a storage that holds files, ready as the
\* puts of the model leave them
ListSpecInit ==
    /\ FetchOff /\ HmacOff /\ TokenOff /\ ClientOff
    /\ backend \in {"shopify", "r2"}
    /\ env = [faults |-> FALSE, calls |-> 0, logs |-> TRUE]
    /\ \E held \in SUBSET Keys, file \in Files :
          /\ shop \in {[id \in FileIds |->
                          IF backend = "shopify" /\ at[id] \in held
                          THEN [FileCreated(at[id], [file EXCEPT !.name = at[id]])
                                  EXCEPT !.fileStatus = "READY", !.url = Locator(id)]
                          ELSE NoNode] :
                       at \in {f \in [FileIds -> Keys] :
                                 \A i, j \in FileIds : i # j => f[i] # f[j]}}
          /\ bucket = [k \in Keys |->
                         IF backend = "r2" /\ k \in held THEN R2Put(file) ELSE NoObject]
    /\ staged = [p \in Puts |-> NoFile]
    /\ puts = [p \in Puts |-> PutIdle]
    /\ expect = [k \in Keys |-> Untouched]
    /\ obs = NoObs
    /\ pager \in [state : {"paging"}, prefix : {<<>>} \cup Keys,
                  limit : {NoLimit} \cup (1..MaxLimit), cursor : {NoCursor},
                  visited : {<<>>}, pages : {0}]

SpecList == ListSpecInit /\ [][ListNext]_vars

\* a client of every type and base configuration, called once
SpecClient == ClientSpecInit /\ [][ClientNext]_vars

----------------------------------------------------------------------------
(* Claims about the fetcher *)

Done(c) == pc[c] = "done"

\* the statuses the endpoint gives to the first n requests are exactly st
Answers(c, st) ==
    \A i \in 1..Len(st) :
        Outcome(script[c], i).kind = "response" /\ Outcome(script[c], i).status = st[i]

\* the last response the call obtained from the endpoint (Undefined if none)
RECURSIVE LastObtainedUpTo(_, _)
LastObtainedUpTo(sc, n) ==
    IF n = 0 THEN Undefined
    ELSE IF Outcome(sc, n).kind = "response" THEN Outcome(sc, n)
    ELSE LastObtainedUpTo(sc, n - 1)

LastObtained(c) == LastObtainedUpTo(script[c], nreq[c])

IsDecimal(s) == s # <<>> /\ \A i \in 1..Len(s) : IsDigit(s[i])

\* C1 (as stated): when the endpoint answers the successive requests of a
\* call with 500, 500, 200, the call returns the 200 response and has
\* re-issued the request exactly twice (three requests in all).
C1_ReturnsThird ==
    \A c \in Calls :
        (Done(c) /\ Answers(c, <<500, 500, 200>>)) =>
            /\ result[c].how = "returned"
            /\ result[c].value.kind = "response"
            /\ result[c].value.status = 200
            /\ nreq[c] = 3

\* C2: a call whose initial response has status 429 sleeps exactly once, for
\* Retry-After seconds times 1000 ms (1000 ms without the header), issues
\* exactly one request and returns that original 429 response.
C2_RateLimitNoReissue ==
    \A c \in Calls :
        (Done(c) /\ Answers(c, <<429>>)) =>
            LET h == script[c][1].retryAfter
            IN  /\ nreq[c] = 1
                /\ result[c] = [how |-> "returned", value |-> script[c][1]]
                /\ Len(sleeps[c]) = 1
                /\ ~h.present => sleeps[c][1] = 1000
                /\ (h.present /\ IsDecimal(h.value)) =>
                       sleeps[c][1] = DigitsValue(h.value) * 1000

C2_Witness ==
    \E c \in Calls :
        /\ Done(c)
        /\ Answers(c, <<429>>)
        /\ script[c][1].retryAfter = [present |-> TRUE, value |-> <<"2">>]
        /\ sleeps[c] = <<2000>>

\* C3 (as stated): no fetcher call ever throws, whatever the endpoint does,
\* a network failure of the first request included.
C3_NeverRaises == \A c \in Calls : result[c].how # "thrown"

\* C4 (as stated): when the retry budget is exhausted the call returns the
\* last response it obtained from the endpoint, always a response object.
C4_ReturnsLastResponse ==
    \A c \in Calls :
        (Done(c) /\ attempt[c] >= Attempts) =>
            /\ result[c].how = "returned"
            /\ result[c].value.kind = "response"
            /\ result[c].value = LastObtained(c)

\* C5: a call issues at most 4 requests, issues a second one only when the
\* initial response has a status of at least 500, and ends.
C5_BoundedAndTerminates ==
    /\ [](\A c \in Calls :
            /\ nreq[c] <= 4
            /\ nreq[c] > 1 =>
                  (script[c][1].kind = "response" /\ script[c][1].status >= 500))
    /\ \A c \in Calls : (pc[c] = "idle") ~> Done(c)

C5_Witness == \E c \in Calls : Done(c) /\ nreq[c] = 4 /\ Len(sleeps[c]) = 2

----------------------------------------------------------------------------
(* Claims about hmac *)

\* the timestamp parameter of the request (the first one), as sent
SentTimestamp == SearchGet(hmacIn.query, TimestampKey)

NowSeconds == hmacIn.nowMs \div 1000

\* the timestamp is a number of seconds that lies more than 90 s from now
TimestampStale ==
    /\ SentTimestamp.present
    /\ IsDecimal(SentTimestamp.value)
    /\ Abs(NowSeconds - DigitsValue(SentTimestamp.value)) > 90

TimestampFresh ==
    /\ SentTimestamp.present
    /\ IsDecimal(SentTimestamp.value)
    /\ Abs(NowSeconds - DigitsValue(SentTimestamp.value)) <= 90

\* C6 (as stated): for both variants and every value of the timestamp
\* parameter, a timestamp that is present and lies more than 90 seconds
\* from the current time makes hmac return null, whatever the signature.
C6_StaleGivesNull ==
    (hmacOut.state = "done" /\ TimestampStale) => hmacOut.verdict = "null"

\* the signature the request provides, and the one the variant expects
ProvidedSignature ==
    IF hmacIn.from = "header" THEN hmacIn.sigHeader
    ELSE SearchGet(hmacIn.query, SignatureKey)

ExpectedSignature ==
    LET payload == IF hmacIn.from = "header" THEN hmacIn.body ELSE hmacOut.data
        digest == Sign(Utf8(hmacIn.secret), Utf8(payload))
    IN  IF hmacIn.from = "header" THEN EncodeBase64(digest) ELSE EncodeHex(digest)

\* C7: without a timestamp parameter, or with one within 90 seconds of now,
\* hmac does not return null and returns true exactly when the provided
\* signature equals, byte for byte, the keyed hash of the payload in the
\* variant's encoding (base64 for header, hex for url); an absent signature
\* or one of another length gives false.
C7_VerdictIsComparison ==
    (hmacOut.state = "done" /\ (~SentTimestamp.present \/ TimestampFresh)) =>
        /\ hmacOut.verdict \in {"true", "false"}
        /\ hmacOut.verdict = "true" <=>
              (/\ ProvidedSignature.present
               /\ Utf8(ProvidedSignature.value) = Utf8(ExpectedSignature))
        /\ (\/ ~ProvidedSignature.present
            \/ Len(ProvidedSignature.value) # Len(ExpectedSignature)) =>
              hmacOut.verdict = "false"

C7_Witness ==
    /\ hmacOut.state = "done"
    /\ hmacIn.from = "header"
    /\ TimestampFresh
    /\ Abs(NowSeconds - DigitsValue(SentTimestamp.value)) = 90
    /\ hmacIn.body # <<>>
    /\ hmacOut.verdict = "true"

\* the values of key k in the query, in their order of occurrence
RECURSIVE ValuesOf(_, _)
ValuesOf(q, k) ==
    IF q = <<>> THEN <<>>
    ELSE IF Head(q).key = k THEN <<Head(q).value>> \o ValuesOf(Tail(q), k)
    ELSE ValuesOf(Tail(q), k)

RECURSIVE JoinComma(_)
JoinComma(vs) ==
    IF vs = <<>> THEN <<>>
    ELSE IF Len(vs) = 1 THEN vs[1]
    ELSE vs[1] \o <<",">> \o JoinComma(Tail(vs))

Contains(s, sub) ==
    \E i \in 0..(Len(s) - Len(sub)) : SubSeq(s, i + 1, i + Len(sub)) = sub

\* C8 (as stated): for the url variant the payload contains, for every query
\* parameter other than signature, the string key=value in which all the
\* values of a repeated parameter are joined with commas in their order.
C8_AllValuesJoined ==
    (hmacOut.state = "done" /\ hmacIn.from = "url") =>
        \A i \in 1..Len(hmacIn.query) :
            LET k == hmacIn.query[i].key
            IN  k # SignatureKey =>
                    Contains(hmacOut.data,
                             k \o <<"=">> \o JoinComma(ValuesOf(hmacIn.query, k)))

\* C9 (as stated): two url requests with the same query parameters in
\* different orders give the same payload and the same verdict.
C9_AnyOrder ==
    hmacOut2.state = "done" =>
        /\ hmacOut2.data = hmacOut.data
        /\ hmacOut2.verdict = hmacOut.verdict

\* C9 (amended): two url requests with the same query parameters in
\* different orders, the occurrences of every repeated key in the same
\* relative order, give the same payload and the same verdict. (Exchanges
\* of two neighbours with different keys generate all these reorderings.)
C9_OrderOfDistinctKeys ==
    (/\ hmacOut2.state = "done"
     /\ hmacIn.query[hmacOut2.at].key # hmacIn.query[hmacOut2.at + 1].key) =>
        /\ hmacOut2.data = hmacOut.data
        /\ hmacOut2.verdict = hmacOut.verdict

C9_Witness ==
    /\ hmacOut2.state = "done"
    /\ hmacIn.query[hmacOut2.at].key = <<"b">>
    /\ hmacIn.query[hmacOut2.at + 1].key = <<"a">>
    /\ Len(hmacIn.query) = 3
    /\ hmacOut2.verdict = "true"

----------------------------------------------------------------------------
(* Claims about token *)

\* the credential of the request: the Authorization header without its
\* "Bearer " if that leaves anything, else the id_token parameter
Carried ==
    IF tokenIn.authorization.present
       /\ \E i \in 1..Len(tokenIn.authorization.value) :
             tokenIn.authorization.value[i].kind # "bearer"
    THEN ReplaceBearer(tokenIn.authorization.value)
    ELSE IF tokenIn.idToken.present THEN tokenIn.idToken.value ELSE <<>>

\* the verification primitive accepts: a token, signed with the secret,
\* not expired and already valid, with 10 seconds of tolerance
PrimitiveAccepts ==
    /\ Len(Carried) = 1
    /\ Carried[1].kind = "jwt"
    /\ Carried[1].signedWith = tokenIn.secret
    /\ Carried[1].exp.present => Carried[1].exp.value > tokenIn.now - 10
    /\ Carried[1].nbf.present => Carried[1].nbf.value <= tokenIn.now + 10

AudIsKey == Carried[1].aud = [kind |-> "string", value |-> tokenIn.key]

\* C10: for a request that carries a token, token returns the claims only
\* if the primitive accepted the token and aud equals key, returns null when
\* the primitive accepted it and aud differs from key, and raises when the
\* primitive rejects it.
C10_ThreeOutcomes ==
    (tokenOut.state = "done" /\ Carried # <<>>) =>
        /\ tokenOut.outcome \in {"claims", "null", "raised"}
        /\ tokenOut.outcome = "claims" <=> (PrimitiveAccepts /\ AudIsKey)
        /\ tokenOut.outcome = "null" <=> (PrimitiveAccepts /\ ~AudIsKey)
        /\ tokenOut.outcome = "raised" <=> ~PrimitiveAccepts
        /\ tokenOut.outcome = "claims" => tokenOut.claims = Carried

C10_Witness ==
    /\ tokenOut.state = "done"
    /\ Carried # <<>>
    /\ PrimitiveAccepts
    /\ Carried[1].aud.kind = "array"
    /\ tokenOut.outcome = "null"

\* the Authorization header with its "Bearer " prefix removed, empty when
\* the request has no such header
FromHeader ==
    LET v == tokenIn.authorization.value
    IN  IF ~tokenIn.authorization.present THEN <<>>
        ELSE IF v # <<>> /\ Head(v).kind = "bearer" THEN Tail(v)
        ELSE v

\* the id_token parameter, empty when the request has none
FromQuery == IF tokenIn.idToken.present THEN tokenIn.idToken.value ELSE <<>>

\* C11: token hands the primitive the Authorization header without its
\* "Bearer " prefix when that is not empty and the id_token parameter
\* otherwise; when both are empty it returns null and the primitive is not
\* invoked and nothing is raised.
C11_CredentialSource ==
    tokenOut.state = "done" =>
        /\ FromHeader # <<>> =>
              tokenOut.verified /\ tokenOut.encoded = FromHeader
        /\ (FromHeader = <<>> /\ FromQuery # <<>>) =>
              tokenOut.verified /\ tokenOut.encoded = FromQuery
        /\ (FromHeader = <<>> /\ FromQuery = <<>>) =>
              tokenOut.outcome = "null" /\ ~tokenOut.verified

\* the header is only "Bearer " and the parameter holds the token
C11_Witness ==
    /\ tokenOut.state = "done"
    /\ tokenIn.authorization = Some(<<BearerPrefix>>)
    /\ FromQuery # <<>>
    /\ tokenOut.encoded = FromQuery
    /\ tokenOut.outcome = "claims"

----------------------------------------------------------------------------
(* Claims about the file storages *)

\* get(k) was called, and answered, while the last thing done to k was a
\* put that succeeded
GetAfterPut ==
    /\ obs.op = "get"
    /\ obs.reply = "data"
    /\ obs.was.stored
    /\ obs.was.settled

\* C12: on each backend, get(k) after a successful put(k, c) returns an
\* object with the bytes of c and the declared type of c.
C12_RoundTrip ==
    GetAfterPut =>
        /\ obs.present
        /\ obs.file.bytes = obs.was.file.bytes
        /\ obs.file.type = obs.was.file.type

C12_Witness ==
    /\ GetAfterPut
    /\ backend = "shopify"
    /\ obs.file.bytes = <<2>>
    /\ obs.file.type = "image/gif"

\* the one put called so far is a put of the key, which nothing stored before
FirstPutOf(key) ==
    /\ env.calls = MaxPuts - 1
    /\ puts["p1"].key = key
    /\ ~expect[key].stored

\* the call just made reports the key as present: has gave true, get gave
\* a file, or list gave an entry of the key's file
ReportsPresent(key) ==
    \/ obs.op \in {"has", "get"} /\ obs.key = key /\ obs.present
    \/ obs.op = "list" /\ \E j \in 1..Len(obs.files) : obs.files[j].of = key

\* C13: on the remote-API adapter, while put(k, c) is the first put of k,
\* no has(k), get(k) or list call reports k as present before the poll loop
\* of that put has seen the status READY.
C13_AbsentUntilReady ==
    \A key \in Keys :
        (backend = "shopify" /\ FirstPutOf(key) /\ ReportsPresent(key))
            => SawReady(key)

\* the names of the platform's files that the caller's prefix matches
Matching ==
    {shop[id].filename : id \in {i \in FileIds : /\ shop[i].exists
                                                  /\ IsPrefix(pager.prefix, shop[i].filename)}}

\* C14: on the remote-API adapter, a caller that gives each list call the
\* cursor the call before returned sees every matching entry exactly once:
\* no entry twice, and all of them once no cursor is returned.
C14_CursorFollows ==
    backend = "shopify" =>
        /\ \A i, j \in 1..Len(pager.visited) :
              i # j => pager.visited[i] # pager.visited[j]
        /\ pager.state = "done" =>
              {pager.visited[i] : i \in 1..Len(pager.visited)} = Matching

\* remove(k) was called for a key that nothing has stored
RemoveOfMissing == obs.op = "remove" /\ obs.was = Untouched

C16_AbsentKey ==
    (obs.op \in {"has", "get"} /\ obs.reply = "data" /\ ~obs.was.stored)
        => ~obs.present

----------------------------------------------------------------------------
(* Claims about the poll loop of put *)

\* the log of the one put, and its part from the first poll on
PutLog == puts["p1"].log

FromFirstPoll ==
    LET first == CHOOSE i \in 1..(Len(PutLog) + 1) :
                    /\ i = Len(PutLog) + 1 \/ PutLog[i].call = "node"
                    /\ \A j \in 1..(i - 1) : PutLog[j].call # "node"
    IN  SubSeq(PutLog, first, Len(PutLog))

\* the responses of the polls, in order
PollsSeen ==
    LET polls == SelectSeq(PutLog, LAMBDA e : e.call = "node")
    IN  [i \in 1..Len(polls) |-> polls[i].saw]

\* a response that reports the status and nothing else: no envelope errors
\* and no errors of the file
Reports(saw, status) ==
    /\ saw.kind = "data"
    /\ saw.node.fileStatus = status
    /\ saw.node.fileErrors = <<>>

\* staging, transfer and linking succeeded and the polls reported
\* PROCESSING, PROCESSING and READY with a locator
ThreePolls ==
    /\ Len(PollsSeen) = 3
    /\ Reports(PollsSeen[1], "PROCESSING")
    /\ Reports(PollsSeen[2], "PROCESSING")
    /\ Reports(PollsSeen[3], "READY")
    /\ PollsSeen[3].node.url # NoUrl

\* C18: when the polls report PROCESSING, PROCESSING, READY with a locator,
\* put returns that locator after exactly 3 polls, with one sleep of 750 ms
\* between consecutive polls and none before the first or after the last.
C18_ThreePollsTwoSleeps ==
    ThreePolls =>
        /\ puts["p1"].pc = "done"
        /\ puts["p1"].out = Returned(PollsSeen[3].node.url)
        /\ [i \in 1..Len(FromFirstPoll) |->
               <<FromFirstPoll[i].call, FromFirstPoll[i].ms>>]
             = << <<"node", 0>>, <<"sleep", 750>>, <<"node", 0>>,
                  <<"sleep", 750>>, <<"node", 0>> >>
        /\ \A i \in 1..Len(PutLog) :
              PutLog[i].call = "sleep" => i > Len(PutLog) - Len(FromFirstPoll)

C18_Witness ==
    /\ ThreePolls
    /\ puts["p1"].out.kind = "url"
    /\ Len(SelectSeq(PutLog, LAMBDA e : e.call = "sleep")) = 2

\* the response of the last poll of the one put
LastPoll == puts["p1"].last

\* C19: the first poll that reports FAILED makes put raise an error that
\* carries the errors of the file of that poll, and that poll is the last
\* remote call of the put.
C19_FailedRaises ==
    (LastPoll.kind = "data" /\ LastPoll.node.fileStatus = "FAILED") =>
        /\ puts["p1"].pc = "done"
        /\ puts["p1"].out.kind = "exception"
        /\ puts["p1"].out.errors = LastPoll.node.fileErrors
        /\ PutLog[Len(PutLog)].call = "node"
        /\ PutLog[Len(PutLog)].saw = LastPoll

\* FAILED is reported by a later poll than the first, without errors of
\* the file
C19_Witness ==
    /\ LastPoll.kind = "data"
    /\ LastPoll.node.fileStatus = "FAILED"
    /\ LastPoll.node.fileErrors = <<>>
    /\ Len(PollsSeen) = 2
    /\ puts["p1"].out.message = "File upload failed"

\* put is still in its loop: it has neither returned nor raised
StillPolling ==
    /\ puts["p1"].pc \in {"sleep", "poll"}
    /\ puts["p1"].out.kind = "none"

\* what the claim says of a response with data: READY with a locator ends
\* the put with that locator, READY without one and PROCESSING keep it in
\* its loop
AsClaimed(saw) ==
    /\ (saw.node.fileStatus = "READY" /\ saw.node.url # NoUrl) =>
          /\ puts["p1"].pc = "done"
          /\ puts["p1"].out = Returned(saw.node.url)
    /\ \/ saw.node.fileStatus = "READY" /\ saw.node.url = NoUrl
       \/ saw.node.fileStatus = "PROCESSING"
       => StillPolling

\* C20 as stated: whenever a poll response without envelope errors reports
\* READY with a locator, put returns that locator; when it reports READY
\* without a locator, or a non-terminal status, put sleeps and polls again.
C20_ReadyReturns == LastPoll.kind = "data" => AsClaimed(LastPoll)

\* C20, amended: the same for the poll responses without envelope errors
\* whose file carries no errors.
C20_ReadyReturnsWithoutFileErrors ==
    (LastPoll.kind = "data" /\ LastPoll.node.fileErrors = <<>>)
        => AsClaimed(LastPoll)

\* a READY response without a locator has been followed by a sleep
C20_Witness ==
    /\ LastPoll.kind = "data"
    /\ LastPoll.node.fileErrors = <<>>
    /\ LastPoll.node.fileStatus = "READY"
    /\ LastPoll.node.url = NoUrl
    /\ PutLog[Len(PutLog)].call = "sleep"

----------------------------------------------------------------------------
(* Claims about the retry loop of the fetcher *)

\* the i-th request of the call is a re-issued one that the endpoint answers
\* with a response
Reissued(c, i) ==
    i \in 2..nreq[c] /\ Outcome(script[c], i).kind = "response"

\* C28: in retry a re-issued response of status exactly 500 is returned at
\* once, with no further request, and a re-issued response of a status above
\* 500 is followed by a further request unless the budget of 3 is spent.
C28_StrictComparison ==
    \A c \in Calls : \A i \in 1..(Attempts + 1) :
        Reissued(c, i) =>
            /\ Outcome(script[c], i).status = 500 =>
                  /\ Done(c)
                  /\ nreq[c] = i
                  /\ result[c] = [how |-> "returned", value |-> Outcome(script[c], i)]
            /\ (Outcome(script[c], i).status > 500 /\ Done(c) /\ nreq[c] = i) =>
                  /\ attempt[c] = Attempts
                  /\ i = Attempts + 1

C28_Witness ==
    \E c \in Calls :
        /\ Done(c)
        /\ Answers(c, <<500, 503, 500>>)
        /\ nreq[c] = 3
        /\ attempt[c] = 1
        /\ result[c].value.status = 500

\* the sleeps of retry: those of a call that rateLimit did not delay
BackoffSleeps(c) == IF Outcome(script[c], 1).status = 429 THEN <<>> ELSE sleeps[c]

\* C29 (as stated): every re-issued request is preceded by a sleep of retry;
\* the n-th sleep lies in [d/2, d) for d = 100 * 2^n, and the sleeps of a
\* call do not decrease.
C29_EveryReissueSlept ==
    \A c \in Calls :
        /\ nreq[c] >= 2 => Len(BackoffSleeps(c)) >= nreq[c] - 1
        /\ \A n \in 1..Len(BackoffSleeps(c)) :
              /\ (Delay * Pow2(n)) \div 2 <= BackoffSleeps(c)[n]
              /\ BackoffSleeps(c)[n] < Delay * Pow2(n)
              /\ n > 1 => BackoffSleeps(c)[n - 1] <= BackoffSleeps(c)[n]

----------------------------------------------------------------------------
(* Claims about merge and the client *)

PropertyNames(value) == {value.entries[i].key : i \in DOMAIN value.entries}

\* the deep merge of the claim: a property the options lack keeps the value
\* of the base, objects at one key are merged in the same way, and an array
\* or a primitive among the options takes the place of the value of the base
RECURSIVE DeepMerged(_, _, _)
DeepMerged(merged, base, options) ==
    /\ merged.kind = "object"
    /\ PropertyNames(merged) = PropertyNames(base) \cup PropertyNames(options)
    /\ \A k \in PropertyNames(merged) :
          LET b == Property(base.entries, k)
              o == Property(options.entries, k)
              m == Property(merged.entries, k)
          IN  /\ o = NoValue => m = b
              /\ o.kind \in {"array", "primitive"} => m = o
              /\ (o.kind = "object" /\ b.kind = "object") => DeepMerged(m, b, o)

\* C23 (as stated): the configuration of a call is the deep merge of the
\* props with the options of the call: nested objects are merged key by key,
\* an array or a primitive of the options replaces the value of the props
\* whole, and the props are left as they were.
C23_DeepMerge ==
    /\ [](client.state = "fetched" /\ client.init # NoValue =>
            DeepMerged(client.config, client.props, client.init))
    /\ [][client.state = "created" => client'.props = client.props]_vars

\* the type and the token a client was made with
TypeOf(props) == Property(props.entries, "type").prim[1]

TokenOf(props) == Property(props.entries, "token").prim

\* C30 (as stated): the request of a client carries the token of its props
\* in the header of its type: the token itself for admin and storefront,
\* "Bearer " and the token for customer.
C30_AuthHeaderCarriesToken ==
    client.state = "requested" =>
        Property(Property(client.config.entries, "headers").entries,
                 AuthHeader[TypeOf(client.props)])
            = Primitive((IF TypeOf(client.props) = "customer" THEN <<"Bearer ">> ELSE <<>>)
                            \o TokenOf(client.props))

----------------------------------------------------------------------------
(* Claims about the listing of the bucket *)

\* the keys of the bucket that the caller's prefix matches
BucketMatching == {k \in Keys : bucket[k].exists /\ IsPrefix(pager.prefix, k)}

\* the bucket's own listing for the cursor, limit and prefix of the caller
NativeListing ==
    Page(SelectSeq([i \in 1..Len(KeyOrder) |-> i],
                   LAMBDA i : KeyOrder[i] \in BucketMatching),
         pager.cursor,
         IF pager.limit = NoLimit THEN BucketLimit ELSE pager.limit)

\* C24: on the bucket adapter every list call gives the page that the
\* bucket's own listing gives for the caller's cursor, limit and prefix, and
\* returns a cursor exactly when that listing is truncated; a caller that
\* follows the cursors until none is returned visits every stored key that
\* matches the prefix exactly once.
C24_BucketListing ==
    /\ [][(backend = "r2" /\ pager'.pages = pager.pages + 1) =>
            /\ (pager'.cursor # NoCursor) <=> NativeListing.hasNextPage
            /\ NativeListing.hasNextPage => pager'.cursor = NativeListing.endCursor
            /\ pager'.visited =
                  pager.visited \o [j \in 1..Len(NativeListing.at) |->
                                      KeyOrder[NativeListing.at[j]]]]_vars
    /\ [](backend = "r2" =>
            /\ \A i, j \in 1..Len(pager.visited) :
                  i # j => pager.visited[i] # pager.visited[j]
            /\ pager.state = "done" =>
                  {pager.visited[i] : i \in 1..Len(pager.visited)} = BucketMatching)

C24_Witness ==
    /\ backend = "r2"
    /\ pager.state = "done"
    /\ pager.limit = 1
    /\ pager.pages = 2
    /\ pager.visited = KeyOrder

----------------------------------------------------------------------------
(* Claims about the steps of put *)

\* the responses that report an error, by remote call
ErrorReplies ==
    [stagedUploadsCreate |-> {"reject", "errors", "userErrors", "noTarget"},
     upload |-> {"reject", "refused"},
     fileCreate |-> {"reject", "errors", "userErrors", "fileErrors"},
     node |-> {"reject", "errors"}]

\* the remote call went well: a later remote call may follow it
WentWell(e) == e.call # "sleep" /\ e.saw.kind \notin ErrorReplies[e.call]

\* C25: a put makes its remote calls in the order staging, transfer,
\* linking, polls: one staging request first, a transfer only after a
\* staging that went well, a linking request only after a transfer that
\* went well, polls only after a linking that went well, each of the three
\* once; a remote call that reports an error is the last of the put, which
\* then has raised.
C25_StepOrder ==
    /\ [][\A p \in Puts :
            Len(puts'[p].log) = Len(puts[p].log) + 1 =>
                LET log == puts[p].log
                    new == puts'[p].log[Len(log) + 1]
                    last == log[Len(log)]
                IN  /\ SubSeq(puts'[p].log, 1, Len(log)) = log
                    /\ puts[p].out.kind = "none"
                    /\ new.call = "stagedUploadsCreate" <=> log = <<>>
                    /\ new.call = "upload" =>
                          last.call = "stagedUploadsCreate" /\ WentWell(last)
                    /\ new.call = "fileCreate" =>
                          last.call = "upload" /\ WentWell(last)
                    /\ new.call = "node" =>
                          \/ last.call = "fileCreate" /\ WentWell(last)
                          \/ last.call = "sleep"
                    /\ new.call = "sleep" => last.call = "node" /\ WentWell(last)]_vars
    /\ [](\A p \in Puts : \A i \in 1..Len(puts[p].log) :
            (puts[p].log[i].call # "sleep" /\ ~WentWell(puts[p].log[i])) =>
                /\ i = Len(puts[p].log)
                /\ puts[p].pc = "done"
                /\ puts[p].out.kind \in {"exception", "error"})

\* a refused transfer ended the put after its second remote call
C25_Witness ==
    /\ puts["p1"].pc = "done"
    /\ puts["p1"].out.message = "Forbidden"
    /\ [i \in 1..Len(PutLog) |-> PutLog[i].call] = <<"stagedUploadsCreate", "upload">>

\* C26 (as stated): every put that fails raises a classified error, one
\* that carries a status code and a kind tag, whatever the step and the
\* shape of the failure: a request that fails at transport level and a
\* staging response without a target included.
C26_FailuresClassified ==
    \A p \in Puts :
        (puts[p].pc = "done" /\ puts[p].out.kind # "url") =>
            /\ puts[p].out.kind = "exception"
            /\ puts[p].out.status # 0
            /\ puts[p].out.type \in {"REQUEST", "RESPONSE"}

----------------------------------------------------------------------------
(* Claims about the end of the poll loop *)

\* the put is in its loop
InLoop(p) == puts[p].pc \in {"poll", "sleep"}

\* the file that the put polls
Polling(p) == IF puts[p].id \in FileIds THEN shop[puts[p].id] ELSE NoNode

\* a file in a state that ends the loop of the put that polls it, and that
\* the platform does not leave: FAILED, READY with a locator, or errors
Final(node) ==
    \/ node.fileErrors # <<>>
    \/ node.fileStatus = "FAILED"
    \/ node.fileStatus = "READY" /\ node.url # NoUrl

\* C27: the loop has no limit. A put leaves it only on a response that
\* carries an error or reports FAILED or READY with a locator; after every
\* other response it sleeps and polls again, however many turns it has
\* taken; and once the platform's file is FAILED, READY with a locator or in
\* error, the put returns or raises.
C27_UnboundedLoop ==
    /\ [](\A p \in Puts :
            (puts[p].pc = "done" /\ puts[p].last.kind = "data") =>
                Final(puts[p].last.node))
    /\ \A p \in Puts :
          /\ (puts[p].pc = "poll") ~> (puts[p].pc \in {"sleep", "done"})
          /\ (puts[p].pc = "sleep") ~> (puts[p].pc = "poll")
          /\ (InLoop(p) /\ Final(Polling(p))) ~> (puts[p].pc = "done")

\* the put waits in its loop for a file that is READY without a locator
C27_Witness ==
    /\ puts["p1"].pc = "sleep"
    /\ puts["p1"].last.kind = "data"
    /\ puts["p1"].last.node.fileStatus = "READY"
    /\ puts["p1"].last.node.url = NoUrl
    /\ shop[puts["p1"].id] = puts["p1"].last.node

-----------------------------------------------------------------------------
(* Claims about calls that race *)

\* both puts were at work on the key at one time and both have returned a
\* locator
BothPut(key) ==
    \A p \in Puts :
        /\ puts[p].pc = "done" /\ puts[p].out.kind = "url"
        /\ puts[p].key = key /\ ~puts[p].alone

\* get(k) gave a file after two puts of k that raced (in the bucket: after
\* a put of k that found another file)
GetAfterRace ==
    /\ obs.op = "get" /\ obs.reply = "data"
    /\ \/ backend = "shopify" /\ BothPut(obs.key)
       \/ backend = "r2" /\ obs.was.stored /\ obs.was.over

\* C21 as stated: after two puts of one key that ran at the same time have
\* both completed, get(k) returns the content of the put that was the last
\* to complete
C21_LastCompletedWins ==
    GetAfterRace =>
        /\ obs.file.bytes = obs.was.file.bytes
        /\ obs.file.type = obs.was.file.type

\* C21 amended: after two puts of one key that ran at the same time have
\* both completed, get(k) returns the content of the put whose linking
\* request (on R2: whose write to the bucket) was the last to be carried
\* out, whichever put completed last
C21_LastLinkedWins ==
    GetAfterRace =>
        /\ obs.file.bytes = obs.was.linked.bytes
        /\ obs.file.type = obs.was.linked.type

\* get after two racing puts, the last to complete not the last to link
C21_Witness ==
    /\ GetAfterRace
    /\ backend = "shopify"
    /\ obs.was.file # obs.was.linked
    /\ obs.file.bytes = obs.was.linked.bytes

\* the re-issued requests of a call that failed: the network failed or the
\* status made the try block throw
OwnFailures(c) ==
    {i \in 2..nreq[c] :
        \/ Outcome(script[c], i).kind = "netfail"
        \/ RetryThrows(Outcome(script[c], i))}

\* put p took a step of its own
Stepped(p, from) == puts[p].pc = from /\ puts'[p].pc # from

\* C22: calls that run at the same time share no state. Of two puts, each
\* transfers its own file to its own staged target, links that target under
\* its own key and polls the id its own linking gave, a file of its key; of
\* two calls of the fetcher, each one's attempt counter is the number of its
\* own re-issued requests that failed
C22_NoSharedState ==
    /\ [](/\ \A c \in Calls : attempt[c] = Cardinality(OwnFailures(c))
          /\ \A p \in Puts :
                staged[p] # NoFile =>
                    staged[p] = [puts[p].file EXCEPT !.name = puts[p].key])
    /\ [][\A p \in Puts :
            /\ Stepped(p, "link") /\ puts'[p].pc = "poll" =>
                  /\ shop'[puts'[p].id].filename = puts[p].key
                  /\ shop'[puts'[p].id].file = staged[p]
            /\ Stepped(p, "poll") /\ puts'[p].last.kind = "data" =>
                  /\ puts'[p].id = puts[p].id
                  /\ puts'[p].last.node = shop[puts[p].id]
                  /\ puts'[p].last.node.filename = puts[p].key]_vars

\* two calls of the fetcher ran at the same time and failed a different
\* number of times: the first used up its attempts while the second was
\* waiting after its first failure
C22_Witness ==
    /\ pc["c1"] = "done" /\ attempt["c1"] = Attempts
    /\ pc["c2"] = "backoff" /\ attempt["c2"] = 1

-----------------------------------------------------------------------------
(* Claims about the keys of the listing *)

\* list() answered with a result
Listed == obs.op = "list" /\ obs.reply = "data" /\ obs.present

\* has(key) and get(key) on the storage as list() found it, for any value
\* given as the key
HasNow(key) ==
    IF backend = "shopify" THEN ShopifyHas(shop, key, "data")
    ELSE key \in Keys /\ R2Has(bucket, key)

GetNow(key) ==
    IF backend = "shopify" THEN ShopifyGet(shop, key, "data")
    ELSE IF key \in Keys THEN R2Get(bucket, key) ELSE NoFile

\* C31: the keys that list returns are the keys the entries were stored
\* under: a key that a put has stored, untouched since, is the key of an
\* entry of list(), and for every key that list() returns has is true and
\* get returns the entry's file
C31_ListedKeysAreStoredKeys ==
    Listed =>
        /\ \A k \in Keys :
              expect[k].stored /\ expect[k].settled =>
                  \E j \in 1..Len(obs.files) : obs.files[j].key = k
        /\ \A j \in 1..Len(obs.files) :
              /\ HasNow(obs.files[j].key)
              /\ GetNow(obs.files[j].key) # NoFile
              /\ GetNow(obs.files[j].key) = GetNow(obs.files[j].of)

====
